---- MODULE Spec2Model ----
(***************************************************************************)
(* Model of the Ralph Loop engine (src/features/ralph/engine.ts), the      *)
(* stop hook (src/hooks/stop.ts) and the stop conditions                   *)
(* (src/features/ralph/stop-conditions.ts) of ralph-mem.                   *)
(*                                                                         *)
(* JavaScript runs one synchronous segment at a time: an action of this    *)
(* model is one such segment, from a call or the resumption of an await to *)
(* the next await or return.  start() awaits in two places only: the       *)
(* iteration callback (engine.ts:261) and the cooldown sleep               *)
(* (engine.ts:289).                                                        *)
(***************************************************************************)
EXTENDS Integers, Sequences, FiniteSets, TLC

\* ------------------------------------------------------------------ bounds
\* start() calls made in one behaviour (each creates a run or is rejected)
MaxCalls == 2
\* largest maxIterations option passed to start()
MaxIterationsOpt == 2
\* the clock runs from 0 to MaxTime
MaxTime == 2
\* ralph.max_duration_ms of the configuration, in clock ticks
MaxDurationMs == 1
\* ralph.no_progress_threshold of the configuration
NoProgressThreshold == 1
\* largest counter, time and limit of an examined shouldStop call
MaxProbe == 2
\* largest number of lines of an iteration output
MaxLines == 2
\* recordIteration() calls made on one stop-condition manager
MaxRecordCalls == 3
\* longest list of criteria handed to evaluateAll
MaxCriteria == 2
\* createSession() calls made on one memory store
MaxSessions == 2
\* addObservation() calls made on one memory store
MaxObservations == 3
\* stopHook() calls made on one database
MaxHookCalls == 2

\* engines created on the one session of the model
Engines == {"e1", "e2"}
\* error strings an IterationResult may carry
Errors == {"E1", "E2"}
\* what one invocation of the iteration callback does: resolve with
\* {success:true}, with {success:false}, with {success:false, error}, or raise
CallbackOutcomes == {"ok", "fail", "raise"} \cup Errors

None == "none"
ErrCallback == "callback raised"
ErrObserver == "observer raised"
ErrNoCallback == "No iteration callback set. Call onIteration() before start()."

VARIABLES
    runs,               \* loop_runs table: run id -> row, for the tracked runs
    summaries,          \* observations table: run id -> number of loop summaries
    sessionEnded,       \* sessions.ended_at of the session is set
    loop,               \* run id -> the locals and position of the start() call that created it
    currentLoopRun,     \* engine -> cached LoopRun (id, status), NoRun when null
    stopRequested,      \* engine -> stop flag
    iterationCallback,  \* engine -> an iteration callback is registered
    currentIteration,   \* engine -> currentIteration
    calls,              \* number of start() calls made so far
    disturbed,          \* engine -> a stop() or stopHook was ever issued on it, or
                        \* something was ever thrown inside a loop of it
    now,                \* the clock
    probe,              \* a pure function under examination: its inputs and its result
    manager,            \* the stop-condition manager of one run and its pending calls
    evaluator,          \* one evaluateAll() call of a criteria evaluator and its child process
    store,              \* one MemoryStore: its session, its token count and its last call
    hook,               \* the tables the stop hook works on and its last call
    tree,               \* the working tree of the project: its files and its directory
    snapshots,          \* the snapshot root: snapshot id -> snapshot directory
    cleanupCall,        \* the cleanup() call in progress and its locals
    snapshotOp          \* the last snapshot operation and how it ended

\* the state of the loop engine and of the session's tables
engineState == <<runs, summaries, sessionEnded, loop, currentLoopRun, stopRequested,
                 iterationCallback, currentIteration, calls, disturbed>>

\* the state of the snapshot manager and of the files it works on
snapshotVars == <<tree, snapshots, cleanupCall, snapshotOp>>

\* the state of the components that the engine does not touch
others == <<probe, manager, evaluator, store, hook, snapshotVars>>

vars == <<engineState, now, others>>

NoRun == [id |-> 0, status |-> None]
NoResult == [success |-> FALSE, iterations |-> 0, reason |-> None, error |-> None]
Terminal == {"success", "failed", "stopped"}
RunIds == DOMAIN runs

\* ------------------------------------------------------- persistence (DB)
createLoopRun(rs, id, maxIterations, t) ==
    (id :> [status |-> "running", iterations |-> 0,
            max_iterations |-> maxIterations, started_at |-> t]) @@ rs

updateLoopRunStatus(rs, id, status) ==
    IF id \in DOMAIN rs THEN [rs EXCEPT ![id].status = status] ELSE rs

updateLoopRunIterations(rs, id, n) ==
    IF id \in DOMAIN rs THEN [rs EXCEPT ![id].iterations = n] ELSE rs

getLoopRun(rs, id) ==
    IF id \in DOMAIN rs THEN [id |-> id, status |-> rs[id].status] ELSE NoRun

\* the id of a run of the session whose status is running, 0 when there is none
getActiveLoopRun(rs) ==
    IF \E r \in DOMAIN rs : rs[r].status = "running"
    THEN CHOOSE r \in DOMAIN rs : rs[r].status = "running"
    ELSE 0

\* ---------------------------------------------------------- stop conditions
Conditions(maxIterations) ==
    [maxIterations |-> maxIterations, maxDurationMs |-> MaxDurationMs,
     noProgressThreshold |-> NoProgressThreshold]

loopRunToState(run) ==
    [iterations |-> run.iterations, startedAt |-> run.started_at, noProgressCount |-> 0]

\* a check that looks at the duration before it looks at the iteration count
shouldStopDurationFirst(state, conditions, t) ==
    IF t - state.startedAt >= conditions.maxDurationMs THEN "max_duration"
    ELSE IF state.iterations >= conditions.maxIterations THEN "max_iterations"
    ELSE IF state.noProgressCount >= conditions.noProgressThreshold THEN "no_progress"
    ELSE None

shouldStop(state, conditions, t) ==
    IF state.iterations >= conditions.maxIterations THEN "max_iterations"
    ELSE IF t - state.startedAt >= conditions.maxDurationMs THEN "max_duration"
    ELSE IF state.noProgressCount >= conditions.noProgressThreshold THEN "no_progress"
    ELSE None

\* ------------------------------------------------------------------ engine
\* the mutable state one synchronous segment of start() works on
St == [runs |-> runs, sums |-> summaries, loop |-> loop, cur |-> currentLoopRun,
       stopReq |-> stopRequested, curIter |-> currentIteration, dist |-> disturbed]

Apply(S) ==
    /\ runs' = S.runs
    /\ summaries' = S.sums
    /\ loop' = S.loop
    /\ currentLoopRun' = S.cur
    /\ stopRequested' = S.stopReq
    /\ currentIteration' = S.curIter
    /\ disturbed' = S.dist

\* what the observers do in one segment: TRUE = the observer is registered and raises
Choices == [startRaises : BOOLEAN, endRaises : BOOLEAN,
            completeRaises : BOOLEAN, completeRaisesAgain : BOOLEAN]

isRunning(cur, e) == cur[e] # NoRun /\ cur[e].status = "running"

endLoopRun(S, e, status) ==
    IF S.cur[e] = NoRun THEN S
    ELSE LET id == S.cur[e].id
             rs == updateLoopRunStatus(S.runs, id, status)
         IN [S EXCEPT !.runs = rs, !.cur[e] = getLoopRun(rs, id)]

createLoopSummary(S, r) == [S EXCEPT !.sums[r] = @ + 1]

Return(S, r, result) ==
    [S EXCEPT !.loop[r].pc = "done", !.loop[r].result = result]

\* what the completion observer is handed and what is persisted when it is
\* called: the result, the status of the run and the number of its summaries
Notified(S, r, result) ==
    [result |-> result, status |-> S.runs[r].status, summaries |-> S.sums[r]]

\* the catch block of start(): engine.ts:305-320
CatchBlock(S, r, msg, ch) ==
    LET e == S.loop[r].engine
        S1 == endLoopRun([S EXCEPT !.dist[e] = TRUE], e, "failed")
        S2 == createLoopSummary(S1, r)
        result == [success |-> FALSE, iterations |-> S.loop[r].iteration,
                   reason |-> "error", error |-> msg]
        S3 == [S2 EXCEPT !.loop[r].completions = @ + 1,
                         !.loop[r].notified = Notified(S2, r, result)]
    IN IF ch.completeRaisesAgain THEN [S3 EXCEPT !.loop[r].pc = "threw"] ELSE Return(S3, r, result)

\* a terminal branch inside the try block: end the run, write the summary,
\* call the completion observer, return
Finish(S, r, status, result, ch) ==
    LET e == S.loop[r].engine
        S1 == endLoopRun(S, e, status)
        S2 == createLoopSummary(S1, r)
        S3 == [S2 EXCEPT !.loop[r].completions = @ + 1,
                         !.loop[r].notified = Notified(S2, r, result)]
    IN IF ch.completeRaises THEN CatchBlock(S3, r, ErrObserver, ch) ELSE Return(S3, r, result)

\* a loop that makes one pass more than its budget
LoopConditionInclusive(iteration, maxIterations) == iteration <= maxIterations

\* while (iteration < maxIterations): engine.ts:222
LoopCondition(iteration, maxIterations) == iteration < maxIterations

HasIterationCallback(e) == iterationCallback[e]

\* what a run did in an iteration: the counter was persisted, the place of the
\* iteration-start observer was passed, the callback was invoked with its
\* context, the place of the iteration-end observer was passed with a result
Event(kind, n, r, res) == [kind |-> kind, iteration |-> n, runId |-> r, result |-> res]

\* a loop that calls the iteration-start observer before it persists the counter
IterationEventsStartFirst(n, r) ==
    <<Event("start", n, r, None), Event("persist", n, r, None), Event("callback", n, r, None)>>

\* what iteration n of run r does from iteration++ to the await: engine.ts:237-261
IterationEvents(n, r) ==
    <<Event("persist", n, r, None), Event("start", n, r, None), Event("callback", n, r, None)>>

\* a loop that never looks at the stop flag
StopIgnored(S, e) == FALSE

\* if (stopRequested) at the top of the loop: engine.ts:224
StopObserved(S, e) == S.stopReq[e]

\* one pass from the top of the while loop to the await of the callback or to a return
Pass(S, r, ch) ==
    LET L == S.loop[r]
        e == L.engine
    IN IF LoopCondition(L.iteration, L.maxIterations)
       THEN IF StopObserved(S, e)
            THEN Finish(S, r, "stopped",
                        [success |-> FALSE, iterations |-> L.iteration,
                         reason |-> "stopped", error |-> None], ch)
            ELSE LET n == L.iteration + 1
                     S1 == [S EXCEPT !.loop[r].iteration = n, !.curIter[e] = n,
                                     !.runs = updateLoopRunIterations(S.runs, r, n)]
                     S2 == [S1 EXCEPT !.loop[r].events = SubSeq(IterationEvents(n, r), 1, 2)]
                 IN IF ch.startRaises THEN CatchBlock(S2, r, ErrObserver, ch)
                    ELSE IF ~HasIterationCallback(e) THEN CatchBlock(S2, r, ErrNoCallback, ch)
                    ELSE [S1 EXCEPT !.loop[r].pc = "callback", !.loop[r].cbCount = @ + 1,
                                    !.loop[r].events = IterationEvents(n, r)]
       ELSE Finish(S, r, "failed",
                   [success |-> FALSE, iterations |-> L.iteration,
                    reason |-> "max_iterations", error |-> L.lastError], ch)

\* a loop that keeps the first error reported and drops the later ones
KeepFirstError(prev, res) ==
    IF prev # None THEN prev ELSE IF res \in Errors THEN res ELSE prev

\* if (iterationResult.error) lastError = iterationResult.error: engine.ts:283-285
RecordError(prev, res) == IF res \in Errors THEN res ELSE prev

\* a success check that is inverted
IsSuccessInverted(res) == res # "ok"

\* a loop that sleeps after every failed iteration
CooldownAlways(iteration, maxIterations, stopReq) == TRUE

\* iteration < maxIterations && !stopRequested: engine.ts:288
NeedsCooldown(iteration, maxIterations, stopReq) == iteration < maxIterations /\ ~stopReq

\* iterationResult.success: engine.ts:269
IsSuccess(res) == res = "ok"

NewLoop(e, maxIterations) ==
    [pc |-> "init", engine |-> e, iteration |-> 0, maxIterations |-> maxIterations,
     lastError |-> None, result |-> NoResult, completions |-> 0,
     cbCount |-> 0, firstSuccess |-> 0, cbRaised |-> 0, stopCalled |-> FALSE,
     reported |-> None,
     notified |-> [result |-> NoResult, status |-> None, summaries |-> 0],
     stopDuring |-> FALSE,      \* stop() was called while this start() had not returned
     events |-> << >>]          \* what the run did in its current iteration, in order

Restrict(f, D) == [x \in D |-> f[x]]

\* The runs that no statement can name any more once start() on engine e replaces
\* its currentLoopRun: their start() has returned and no other engine's
\* currentLoopRun is one of them.  endLoopRun names currentLoopRun.id only, line 241
\* names the id of its own loop, and the rows are terminal, which the stop hook's
\* UPDATE does not match.  The model stops tracking them.
Unreachable(e) ==
    {r \in RunIds : /\ loop[r].pc \in {"done", "threw"}
                     /\ runs[r].status \in Terminal
                     /\ \A e2 \in Engines \ {e} : currentLoopRun[e2].id # r}

\* a start() that does not look for a running run
SkipActiveRunCheck(rs) == FALSE

\* start() finds a running run of the session: engine.ts:191-192
ActiveRunCheck(rs) == getActiveLoopRun(rs) # 0

\* a start() that resets the stop flag before it looks for a running run
ResetStopFlag(e) == FALSE

\* the value start() leaves in the stop flag when it rejects
RejectedStopFlag(e) == stopRequested[e]

\* a start() that leaves the stop flag as it finds it
StopFlagKept(e) == stopRequested[e]

\* stopRequested = false: engine.ts:199
StopFlagAtStart(e) == FALSE

\* start(): engine.ts:189-321, up to the first await
start(e, maxIterations, ch) ==
    /\ calls < MaxCalls
    /\ calls' = calls + 1
    /\ IF ActiveRunCheck(runs)
       THEN /\ stopRequested' = [stopRequested EXCEPT ![e] = RejectedStopFlag(e)]
            /\ UNCHANGED <<runs, summaries, loop, currentLoopRun, currentIteration, disturbed>>
       ELSE LET r == calls + 1
                keep == RunIds \ Unreachable(e)
                rs == createLoopRun(Restrict(runs, keep), r, maxIterations, now)
                S0 == [St EXCEPT !.stopReq[e] = StopFlagAtStart(e),
                                 !.runs = rs,
                                 !.sums = (r :> 0) @@ Restrict(summaries, keep),
                                 !.loop = (r :> NewLoop(e, maxIterations)) @@ Restrict(loop, keep),
                                 !.cur[e] = getLoopRun(rs, r)]
            IN Apply(Pass(S0, r, ch))
    /\ UNCHANGED <<sessionEnded, iterationCallback, now, others>>

\* the iteration callback settles: engine.ts:261-291, then the top of the loop
CallbackReturns(r, res, ch) ==
    /\ r \in RunIds
    /\ loop[r].pc = "callback"
    /\ LET L == loop[r]
           e == L.engine
           S0 == [St EXCEPT !.loop[r].firstSuccess =
                                IF res = "ok" /\ @ = 0 THEN L.iteration ELSE @,
                            !.loop[r].cbRaised =
                                IF res = "raise" THEN L.iteration ELSE @,
                            !.loop[r].reported =
                                IF res \in Errors THEN res ELSE @,
                            !.loop[r].events =
                                IF res = "raise" THEN @
                                ELSE Append(@, Event("end", L.iteration, r, res))]
       IN IF res = "raise" THEN Apply(CatchBlock(S0, r, ErrCallback, ch))
          ELSE IF ch.endRaises THEN Apply(CatchBlock(S0, r, ErrObserver, ch))
          ELSE IF IsSuccess(res)
          THEN Apply(Finish(S0, r, "success",
                            [success |-> TRUE, iterations |-> L.iteration,
                             reason |-> "success", error |-> None], ch))
          ELSE LET S1 == [S0 EXCEPT !.loop[r].lastError = RecordError(@, res)]
               IN IF NeedsCooldown(L.iteration, L.maxIterations, stopRequested[e])
                  THEN Apply([S1 EXCEPT !.loop[r].pc = "cooldown"])
                  ELSE Apply(Pass(S1, r, ch))
    /\ UNCHANGED <<sessionEnded, iterationCallback, calls, now, others>>

\* the cooldown sleep ends: engine.ts:289, then the top of the loop
CooldownDone(r, ch) ==
    /\ r \in RunIds
    /\ loop[r].pc = "cooldown"
    /\ Apply(Pass(St, r, ch))
    /\ UNCHANGED <<sessionEnded, iterationCallback, calls, now, others>>

\* stop(): engine.ts:323-331
stop(e) ==
    LET S0 == [St EXCEPT !.stopReq[e] = TRUE, !.dist[e] = TRUE,
                         !.loop = [id \in RunIds |->
                                      IF loop[id].engine = e /\ loop[id].pc \notin {"done", "threw"}
                                      THEN [loop[id] EXCEPT !.stopDuring = TRUE]
                                      ELSE loop[id]]]
        r == currentLoopRun[e].id
        S1 == IF isRunning(S0.cur, e)
              THEN endLoopRun([S0 EXCEPT !.loop[r].stopCalled = TRUE], e, "stopped")
              ELSE S0
    IN /\ Apply(S1)
       /\ UNCHANGED <<sessionEnded, iterationCallback, calls, now, others>>

\* a context that is handed out for a run of any status
HasRun(cur, e) == cur[e] # NoRun

\* !(!currentLoopRun || currentLoopRun.status !== "running"): engine.ts:180
HasRunningRun(cur, e) == cur[e] # NoRun /\ cur[e].status = "running"

\* null as the result of getLoopContext()
NoContext == [runId |-> 0, iteration |-> 0]

\* getLoopContext(): engine.ts:179-187
getLoopContext(e) ==
    IF HasRunningRun(currentLoopRun, e)
    THEN [runId |-> currentLoopRun[e].id, iteration |-> currentIteration[e]]
    ELSE NoContext

\* onIteration(): engine.ts:333-335
onIteration(e) ==
    /\ ~iterationCallback[e]
    /\ iterationCallback' = [iterationCallback EXCEPT ![e] = TRUE]
    /\ UNCHANGED <<runs, summaries, sessionEnded, loop, currentLoopRun, stopRequested,
                   currentIteration, calls, disturbed, now, others>>

\* stopHook(): stop.ts:58-96, activeLoopRunId = id (0 when absent)
stopHook(id) ==
    /\ ~sessionEnded
    /\ sessionEnded' = TRUE
    /\ IF id \in RunIds /\ runs[id].status = "running"
       THEN /\ runs' = updateLoopRunStatus(runs, id, "stopped")
            /\ disturbed' = [disturbed EXCEPT ![loop[id].engine] = TRUE]
       ELSE UNCHANGED <<runs, disturbed>>
    /\ UNCHANGED <<summaries, loop, currentLoopRun, stopRequested, iterationCallback,
                   currentIteration, calls, now, others>>

\* time passes while some start() is suspended in an await
Tick ==
    /\ now < MaxTime
    /\ \E r \in RunIds : loop[r].pc \in {"callback", "cooldown"}
    /\ now' = now + 1
    /\ UNCHANGED <<runs, summaries, sessionEnded, loop, currentLoopRun, stopRequested,
                   iterationCallback, currentIteration, calls, disturbed, others>>

InitEngine ==
    /\ runs = << >>
    /\ summaries = << >>
    /\ sessionEnded = FALSE
    /\ loop = << >>
    /\ currentLoopRun = [e \in Engines |-> NoRun]
    /\ stopRequested = [e \in Engines |-> FALSE]
    /\ iterationCallback = [e \in Engines |-> FALSE]
    /\ currentIteration = [e \in Engines |-> 0]
    /\ calls = 0
    /\ disturbed = [e \in Engines |-> FALSE]

\* no function is under examination and no manager has been created
Idle == [fn |-> None]

\* ------------------------------------------------------------- snapshot data
SnapshotIds == {"r1", "r2"}

\* file paths relative to the project root; the last one is the name under
\* which create() writes the manifest into a snapshot directory
ManifestName == ".snapshot-meta.json"
Paths == {"a", "d/b", ManifestName}

Absent == "absent"
\* file contents; ManifestContent is the JSON text of a manifest
Contents == {"v1", "v2"}
ManifestContent == "manifest"

NoFiles == [p \in Paths |-> Absent]

\* The snapshot root lies inside the project (.ralph-mem/snapshots), so the file
\* that snapshot id stores for path p is itself a path of the working tree.
\* <<id, p>> stands for .ralph-mem/snapshots/id/p; the paths one level deeper,
\* which a snapshot of a snapshot makes, are not followed.
StoredPaths == SnapshotIds \X {"a"}

NoStored == [sp \in StoredPaths |-> Absent]

\* a path of the snapshot root at which nothing exists
NoSnapshot ==
    [exists |-> FALSE, files |-> NoFiles, hasManifest |-> FALSE, createdAt |-> 0,
     listed |-> {}, origin |-> NoFiles, clean |-> FALSE,
     nested |-> NoStored,       \* the copies of stored files that this directory holds
     listedStored |-> {}]       \* the stored paths that the manifest lists

\* the working tree at the start: the tracked file a, no directory d
CleanTree == [files |-> [NoFiles EXCEPT !["a"] = "v1"], dir |-> FALSE]

\* no cleanup() call has been made
NoCleanup ==
    [phase |-> "idle", maxAge |-> 0,
     listed |-> << >>,          \* the snapshots that list() returned to the call
     cutoff |-> 0, pos |-> 0, deletedCount |-> 0,
     removed |-> {},            \* the snapshots that the call's delete() found and removed
     interleaved |-> FALSE]     \* another operation ran while the call was suspended

InitSnapshotManager ==
    /\ tree = CleanTree
    /\ snapshots = [id \in SnapshotIds |-> NoSnapshot]
    /\ cleanupCall = NoCleanup
    /\ snapshotOp = [op |-> None, id |-> None, error |-> None]

InitOthers ==
    /\ probe = Idle
    /\ manager = Idle
    /\ evaluator = Idle
    /\ InitSnapshotManager
    /\ store = Idle
    /\ hook = Idle

Init ==
    /\ InitEngine
    /\ InitOthers
    /\ now = 0

\* observers that never raise
Quiet == [startRaises |-> FALSE, endRaises |-> FALSE,
          completeRaises |-> FALSE, completeRaisesAgain |-> FALSE]

\* one engine; the callback and the observers do anything they can do
Next ==
    \/ \E m \in 1..MaxIterationsOpt, ch \in Choices : start("e1", m, ch)
    \/ \E r \in 1..MaxCalls, res \in CallbackOutcomes, ch \in Choices : CallbackReturns(r, res, ch)
    \/ \E r \in 1..MaxCalls, ch \in Choices : CooldownDone(r, ch)
    \/ stop("e1")
    \/ onIteration("e1")
    \/ \E id \in 0..MaxCalls : stopHook(id)

Spec == Init /\ [][Next]_vars

\* one engine whose observers never raise
NextSolo ==
    \/ \E m \in 1..MaxIterationsOpt : start("e1", m, Quiet)
    \/ \E r \in 1..MaxCalls, res \in CallbackOutcomes : CallbackReturns(r, res, Quiet)
    \/ \E r \in 1..MaxCalls : CooldownDone(r, Quiet)
    \/ stop("e1")
    \/ onIteration("e1")

SpecSolo == Init /\ [][NextSolo]_vars

\* two start() calls: the second can overlap with the loop of the first
Twice == 2

\* one engine whose observers never raise, started at most twice
NextSoloTwice ==
    \/ \E m \in 1..MaxIterationsOpt : calls < Twice /\ start("e1", m, Quiet)
    \/ \E r \in 1..Twice, res \in CallbackOutcomes : CallbackReturns(r, res, Quiet)
    \/ \E r \in 1..Twice : CooldownDone(r, Quiet)
    \/ stop("e1")
    \/ onIteration("e1")

\* every invocation of the callback settles and every cooldown timer fires
SoloFairness ==
    \A r \in 1..Twice :
        /\ WF_vars(\E res \in CallbackOutcomes : CallbackReturns(r, res, Quiet))
        /\ WF_vars(CooldownDone(r, Quiet))

SpecSoloTwice == Init /\ [][NextSoloTwice]_vars

SpecSoloFair == SpecSoloTwice /\ SoloFairness

\* two engines on the session, started with the largest iteration budget;
\* observers never raise
NextSession ==
    \/ \E e \in Engines : start(e, MaxIterationsOpt, Quiet)
    \/ \E r \in 1..MaxCalls, res \in {"ok", "fail", "raise"} : CallbackReturns(r, res, Quiet)
    \/ \E r \in 1..MaxCalls : CooldownDone(r, Quiet)
    \/ \E e \in Engines : stop(e)
    \/ \E e \in Engines : onIteration(e)
    \/ \E id \in 0..MaxCalls : stopHook(id)

SpecSession == Init /\ [][NextSession]_vars

\* one engine and the clock; observers never raise
NextTimed ==
    \/ \E m \in 1..MaxIterationsOpt : start("e1", m, Quiet)
    \/ \E r \in 1..MaxCalls, res \in {"ok", "fail", "raise"} : CallbackReturns(r, res, Quiet)
    \/ \E r \in 1..MaxCalls : CooldownDone(r, Quiet)
    \/ stop("e1")
    \/ onIteration("e1")
    \/ Tick

SpecTimed == Init /\ [][NextTimed]_vars

\* -------------------------------------------------------- progress detector
\* An output is a sequence of lines, each ended by a newline: << >> is the empty
\* string and <<"">> is "\n".  A line is a whole word, so every \b of the patterns
\* holds at its two ends.
Lines == {"", "ok", "passed", "error", "fail", "failed"}

Outputs == UNION {[1..n -> Lines] : n \in 0..MaxLines}

\* a test for the empty string that does not trim
IsEmptyUntrimmed(output) == output = << >>

\* !output.trim()
IsBlank(output) == \A i \in DOMAIN output : output[i] = ""

\* matches of the six global patterns of countErrors in one line: "error" matches
\* /\berror\b/gi, "fail" and "failed" match /\bfail(?:ed|ure|s)?\b/gi
ErrorMatches(line) == IF line \in {"error", "fail", "failed"} THEN 1 ELSE 0

RECURSIVE countErrorsFrom(_, _)
countErrorsFrom(output, i) ==
    IF i > Len(output) THEN 0
    ELSE ErrorMatches(output[i]) + countErrorsFrom(output, i + 1)

countErrors(output) == countErrorsFrom(output, 1)

\* the lines that each pattern of progressPatterns matches: of the lines above
\* only "passed" matches one, /\bpassed?\b/i
progressPatterns == {{"passed"}}

\* the lines that each pattern of regressionPatterns matches: /\bfailed?\b/i
\* matches "failed" and not "fail", /\berror\b/i matches "error"
regressionPatterns == {{"failed"}, {"error"}}

\* (output.match(pattern) || []).length for a pattern without the g flag: the
\* array holds the first match only
MatchLength(output, pattern) ==
    IF \E i \in DOMAIN output : output[i] \in pattern THEN 1 ELSE 0

\* a detector that takes a growing error count for progress
MoreErrors(currentErrors, prevErrors) == currentErrors > prevErrors

\* currentErrors < prevErrors: stop-conditions.ts:154
FewerErrors(currentErrors, prevErrors) == currentErrors < prevErrors

\* createSimpleProgressDetector().detectProgress: stop-conditions.ts:135-203
detectProgress(prevOutput, currentOutput) ==
    IF prevOutput = currentOutput THEN FALSE
    ELSE IF IsBlank(currentOutput) /\ ~IsBlank(prevOutput) THEN FALSE
    ELSE IF FewerErrors(countErrors(currentOutput), countErrors(prevOutput)) THEN TRUE
    ELSE IF countErrors(currentOutput) > countErrors(prevOutput) THEN FALSE
    ELSE IF \E pattern \in progressPatterns :
                MatchLength(currentOutput, pattern) > MatchLength(prevOutput, pattern)
         THEN TRUE
    ELSE IF \E pattern \in regressionPatterns :
                MatchLength(currentOutput, pattern) > MatchLength(prevOutput, pattern)
         THEN FALSE
    ELSE TRUE

DetectProgressCall ==
    /\ probe.fn = "detectProgress"
    /\ ~probe.done
    /\ probe' = [probe EXCEPT !.done = TRUE,
                              !.out = detectProgress(probe.prev, probe.current)]
    /\ UNCHANGED <<engineState, store, hook, now, manager, evaluator, snapshotVars>>

InitDetect ==
    /\ InitEngine
    /\ manager = Idle
    /\ evaluator = Idle
    /\ InitSnapshotManager
    /\ store = Idle
    /\ hook = Idle
    /\ now = 0
    /\ \E prevOutput \in Outputs, currentOutput \in Outputs :
          probe = [fn |-> "detectProgress", prev |-> prevOutput,
                   current |-> currentOutput, done |-> FALSE, out |-> FALSE]

SpecDetect == InitDetect /\ [][DetectProgressCall]_vars

\* --------------------------------------------------- stop-condition manager
\* the outputs handed to recordIteration: "", "ok\n" and "error\n"
ManagerOutputs == {<< >>, <<"ok">>, <<"error">>}

\* the detector plugged in: the heuristic one (the default), or the one of
\* createClaudeProgressDetector around a judge that answers anything or raises
Detectors == {"simple", "judge"}

JudgeVerdicts == {"progress", "no progress", "raises"}

\* createStopConditionManager(conditions, detector): stop-conditions.ts:296-308
NewManager(conditions, detector, t) ==
    [fn |-> "manager", conditions |-> conditions, detector |-> detector,
     state |-> [iterations |-> 0, startedAt |-> t, noProgressCount |-> 0],
     lastOutput |-> << >>,
     waiting |-> {},        \* calls whose judge has not settled
     ready |-> << >>,       \* calls whose detector has settled, in settling order
     recordCalls |-> 0, consulted |-> 0, lastReturn |-> 0, lastReason |-> None,
     lastRecorded |-> << >>,    \* the output of the most recent recordIteration call
     identical |-> TRUE,        \* all outputs recorded so far are the same
     overlapped |-> FALSE,      \* a call was made before an earlier one had returned
     resets |-> FALSE]          \* resetNoProgressCount was called

\* a manager that takes no call for the first one
NeverFirstIteration(n) == FALSE

\* state.iterations === 1: stop-conditions.ts:318
IsFirstIteration(n) == n = 1

\* a detector that asks the judge about identical outputs too
NeverSame(prevOutput, currentOutput) == FALSE

\* prevOutput === currentOutput: stop-conditions.ts:250
SameOutput(prevOutput, currentOutput) == prevOutput = currentOutput

\* a manager that keeps its count when progress is reported
KeepCountOnProgress(hasProgress, count) == IF hasProgress THEN count ELSE count + 1

\* the count after a comparison: stop-conditions.ts:326-330
NextNoProgressCount(hasProgress, count) == IF hasProgress THEN 0 ELSE count + 1

\* recordIteration(output) up to its return or its await: stop-conditions.ts:315-324
recordIteration(output) ==
    /\ manager.fn = "manager"
    /\ manager.recordCalls < MaxRecordCalls
    /\ LET n == manager.state.iterations + 1
           id == manager.recordCalls + 1
           recorded == manager.lastRecorded
           M0 == [manager EXCEPT
                    !.state.iterations = n, !.recordCalls = id,
                    !.lastRecorded = output,
                    !.identical = @ /\ (id = 1 \/ output = recorded),
                    !.overlapped = @ \/ manager.waiting # {} \/ manager.ready # << >>]
           prev == manager.lastOutput
           Settled(hasProgress) ==
               [output |-> output, hasProgress |-> hasProgress, prev |-> prev,
                recorded |-> recorded, verdict |-> None]
       IN manager' =
            IF IsFirstIteration(n)
            THEN [M0 EXCEPT !.lastOutput = output,
                            !.lastReturn = manager.state.noProgressCount]
            ELSE IF manager.detector = "simple"
            THEN [M0 EXCEPT !.consulted = @ + 1,
                            !.ready = Append(@, Settled(detectProgress(prev, output)))]
            ELSE IF SameOutput(prev, output)
            THEN [M0 EXCEPT !.consulted = @ + 1,
                            !.ready = Append(@, Settled(FALSE))]
            ELSE [M0 EXCEPT !.consulted = @ + 1,
                            !.waiting = @ \cup {[id |-> id, prev |-> prev, output |-> output,
                                                 recorded |-> recorded]}]
    /\ UNCHANGED <<engineState, store, hook, now, probe, evaluator, snapshotVars>>

\* the judge of a pending call settles; when it raises the heuristic detector
\* answers in its place: stop-conditions.ts:254-259
JudgeSettles(call, verdict) ==
    /\ manager.fn = "manager"
    /\ call \in manager.waiting
    /\ LET hasProgress == IF verdict = "raises"
                          THEN detectProgress(call.prev, call.output)
                          ELSE verdict = "progress"
       IN manager' = [manager EXCEPT
                        !.waiting = @ \ {call},
                        !.ready = Append(@, [output |-> call.output,
                                             hasProgress |-> hasProgress,
                                             prev |-> call.prev,
                                             recorded |-> call.recorded,
                                             verdict |-> verdict])]
    /\ UNCHANGED <<engineState, store, hook, now, probe, evaluator, snapshotVars>>

\* recordIteration resumes after its await: stop-conditions.ts:324-333
RecordResumes ==
    /\ manager.fn = "manager"
    /\ manager.ready # << >>
    /\ LET call == Head(manager.ready)
           count == NextNoProgressCount(call.hasProgress, manager.state.noProgressCount)
       IN manager' = [manager EXCEPT !.ready = Tail(@),
                                     !.state.noProgressCount = count,
                                     !.lastOutput = call.output,
                                     !.lastReturn = count]
    /\ UNCHANGED <<engineState, store, hook, now, probe, evaluator, snapshotVars>>

\* manager.shouldStop(): stop-conditions.ts:336-338
ManagerShouldStop ==
    /\ manager.fn = "manager"
    /\ manager' = [manager EXCEPT
                     !.lastReason = shouldStop(manager.state, manager.conditions, now)]
    /\ UNCHANGED <<engineState, store, hook, now, probe, evaluator, snapshotVars>>

\* resetNoProgressCount(): stop-conditions.ts:340-342
resetNoProgressCount ==
    /\ manager.fn = "manager"
    /\ manager' = [manager EXCEPT !.state.noProgressCount = 0, !.resets = TRUE]
    /\ UNCHANGED <<engineState, store, hook, now, probe, evaluator, snapshotVars>>

\* time passes during the run that the manager belongs to
ManagerTick ==
    /\ manager.fn = "manager"
    /\ now < MaxTime
    /\ now' = now + 1
    /\ UNCHANGED <<engineState, store, hook, probe, manager, evaluator, snapshotVars>>

InitManager ==
    /\ InitEngine
    /\ probe = Idle
    /\ evaluator = Idle
    /\ InitSnapshotManager
    /\ store = Idle
    /\ hook = Idle
    /\ now = 0
    /\ \E detector \in Detectors, maxIterations \in {MaxIterationsOpt, MaxRecordCalls + 1} :
          manager = NewManager(Conditions(maxIterations), detector, now)

NextManager ==
    \/ \E output \in ManagerOutputs : recordIteration(output)
    \/ \E call \in manager.waiting, verdict \in JudgeVerdicts : JudgeSettles(call, verdict)
    \/ RecordResumes
    \/ ManagerShouldStop
    \/ resetNoProgressCount
    \/ ManagerTick

SpecManager == InitManager /\ [][NextManager]_vars

\* -------------------------------------------------------- criteria evaluator
\* a criterion: its type, its command ("absent": none or the empty string,
\* "blank": only white space, "given": a command line) and its expected exit code
\* (None when absent).  Exit codes are compared for equality only and are
\* written as strings.
CriteriaTypes == {"test_pass", "custom"}
Commands == {"absent", "blank", "given"}
ExpectedExitCodes == {None, "0", "1", "-1"}
CriteriaSet == [type : CriteriaTypes, command : Commands, expectedExitCode : ExpectedExitCodes]
CriteriaLists == UNION {[1..n -> CriteriaSet] : n \in 0..MaxCriteria}

\* what the close event carries: an exit code, or null when a signal ended the process
CloseCodes == {"0", "1", "null"}

\* what the spawned commands of one evaluation do: "exits": the command ends on
\* its own accord, "hangs": it never does and SIGTERM ends it, "ignores": it never
\* does and SIGTERM does not end it (the signal is ignored, or it reaches the
\* shell only and the command keeps the pipes open)
ProcessKinds == {"exits", "hangs", "ignores"}

\* the close event can come: the process has ended and its pipes are closed
CanClose(E) ==
    \/ E.process = "exits"
    \/ E.process = "hangs" /\ E.killed

\* a getCommandConfig that finds a default command for every type
DefaultCommandForAll(criterion) == criterion.command # "blank"

\* getCommandConfig(criteria).command is not empty: engine.ts:487-497, 476-482
HasCommand(criterion) ==
    \/ criterion.command = "given"
    \/ criterion.command = "absent" /\ criterion.type # "custom"

EvaluationResult(success, reason, exitCode, suggestTimeout) ==
    [success |-> success, reason |-> reason, exitCode |-> exitCode,
     suggestTimeout |-> suggestTimeout]

\* evaluate() when no process is spawned: engine.ts:586-604
NoCommandResult(criterion) ==
    IF criterion.type = "custom"
    THEN EvaluationResult(FALSE, "Custom criteria requires a command", None, FALSE)
    ELSE EvaluationResult(FALSE, "No command specified", None, FALSE)

\* an evaluator that expects 0 whatever the criterion says
ExpectedAlwaysZero(criterion) == "0"

\* criteria.expectedExitCode ?? 0: engine.ts:629
Expected(criterion) ==
    IF criterion.expectedExitCode = None THEN "0" ELSE criterion.expectedExitCode

\* evaluate() after executeCommand has resolved: engine.ts:617-654
CommandResult(criterion, exitCode) ==
    IF exitCode = "-1"
    THEN EvaluationResult(FALSE, "Command timed out", "-1", TRUE)
    ELSE IF exitCode = Expected(criterion)
    THEN EvaluationResult(TRUE, "passed", exitCode, FALSE)
    ELSE EvaluationResult(FALSE, "failed with exit code", exitCode, FALSE)

NewEvaluation(criteria, process) ==
    [fn |-> "evaluator", criteria |-> criteria, process |-> process, phase |-> "ready",
     index |-> 0,           \* the criterion whose command is running
     killed |-> FALSE,      \* the killed flag of executeCommand
     executed |-> << >>,    \* the positions evaluate() was called for, in call order
     outcomes |-> << >>,    \* the result of each evaluate() call that returned
     spawned |-> << >>,     \* the processes each evaluate() call spawned
     timedOut |-> << >>,    \* the timer of each evaluate() call fired
     closeCodes |-> << >>,  \* what ended each evaluate() call that returned: the code
                            \* of the close event, "error", or None without a process
     blocks |-> << >>,      \* allOutput: the criterion type heading each block
     result |-> EvaluationResult(FALSE, None, None, FALSE)]

\* an evaluateAll that goes on after a failure
NeverStopOnFailure(result) == FALSE

\* if (!result.success): engine.ts:683
StopOnFailure(result) == ~result.success

\* evaluateAll from criterion i to the next await that suspends it, or to its
\* return: engine.ts:673-698
RECURSIVE EvaluateFrom(_, _)
EvaluateFrom(E, i) ==
    IF i > Len(E.criteria)
    THEN [E EXCEPT !.phase = "returned",
                   !.result = EvaluationResult(TRUE, "All criteria passed", None, FALSE)]
    ELSE LET criterion == E.criteria[i]
             E1 == [E EXCEPT !.executed = Append(@, i)]
         IN IF HasCommand(criterion)
            THEN [E1 EXCEPT !.phase = "waiting", !.index = i, !.killed = FALSE,
                            !.spawned = Append(@, 1), !.timedOut = Append(@, FALSE)]
            ELSE LET result == NoCommandResult(criterion)
                     E2 == [E1 EXCEPT !.spawned = Append(@, 0),
                                      !.timedOut = Append(@, FALSE),
                                      !.closeCodes = Append(@, None),
                                      !.outcomes = Append(@, result),
                                      !.blocks = Append(@, criterion.type)]
                 IN IF StopOnFailure(result)
                    THEN [E2 EXCEPT !.phase = "returned", !.result = result]
                    ELSE EvaluateFrom(E2, i + 1)

\* executeCommand resolves with exitCode after the event code; evaluate returns
\* and evaluateAll goes on
Resolve(E, exitCode, code) ==
    LET criterion == E.criteria[E.index]
        result == CommandResult(criterion, exitCode)
        E1 == [E EXCEPT !.outcomes = Append(@, result),
                        !.closeCodes = Append(@, code),
                        !.blocks = Append(@, criterion.type)]
    IN IF StopOnFailure(result)
       THEN [E1 EXCEPT !.phase = "returned", !.result = result]
       ELSE EvaluateFrom(E1, E.index + 1)

\* evaluateAll(criteria): engine.ts:657-699
evaluateAll ==
    /\ evaluator.fn = "evaluator"
    /\ evaluator.phase = "ready"
    /\ evaluator' =
         IF Len(evaluator.criteria) = 0
         THEN [evaluator EXCEPT
                 !.phase = "returned",
                 !.result = EvaluationResult(TRUE, "No criteria to evaluate", None, FALSE)]
         ELSE EvaluateFrom(evaluator, 1)
    /\ UNCHANGED <<engineState, store, hook, now, probe, manager, snapshotVars>>

\* the timeout elapses while the command runs: engine.ts:440-443
TimerFires ==
    /\ evaluator.fn = "evaluator"
    /\ evaluator.phase = "waiting"
    /\ ~evaluator.killed
    /\ evaluator' = [evaluator EXCEPT !.killed = TRUE,
                                       !.timedOut[Len(evaluator.timedOut)] = TRUE]
    /\ UNCHANGED <<engineState, store, hook, now, probe, manager, snapshotVars>>

\* the close event: engine.ts:453-460
ProcClose(code) ==
    /\ evaluator.fn = "evaluator"
    /\ evaluator.phase = "waiting"
    /\ CanClose(evaluator)
    /\ LET exitCode == IF evaluator.killed THEN "-1"
                       ELSE IF code = "null" THEN "1" ELSE code
       IN evaluator' = Resolve(evaluator, exitCode, code)
    /\ UNCHANGED <<engineState, store, hook, now, probe, manager, snapshotVars>>

\* the error event, which the child process emits when it could not be spawned
\* or could not be killed: engine.ts:462-469
ProcError ==
    /\ evaluator.fn = "evaluator"
    /\ evaluator.phase = "waiting"
    /\ evaluator' = Resolve(evaluator, "1", "error")
    /\ UNCHANGED <<engineState, store, hook, now, probe, manager, snapshotVars>>

InitEvaluator ==
    /\ InitEngine
    /\ probe = Idle
    /\ manager = Idle
    /\ InitSnapshotManager
    /\ store = Idle
    /\ hook = Idle
    /\ now = 0
    /\ \E criteria \in CriteriaLists, process \in ProcessKinds :
          evaluator = NewEvaluation(criteria, process)

NextEvaluator ==
    \/ evaluateAll
    \/ TimerFires
    \/ \E code \in CloseCodes : ProcClose(code)
    \/ ProcError

SpecEvaluator == InitEvaluator /\ [][NextEvaluator]_vars

\* evaluateAll is called, a timer that is set fires unless it is cleared, and a
\* close event that can come does come; nothing makes an error event come
EvaluatorFairness ==
    /\ WF_vars(evaluateAll)
    /\ WF_vars(TimerFires)
    /\ WF_vars(\E code \in CloseCodes : ProcClose(code))

SpecEvaluatorFair == SpecEvaluator /\ EvaluatorFairness

\* --------------------------------------------------------- snapshot manager
\* the paths that the repository tracks
TrackedPaths == {"a"}

\* what the three git queries of getModifiedFiles print, as sets of paths: any
\* path may be staged, a tracked path may have unstaged changes, another path
\* may be untracked
GitAnswers ==
    [staged : SUBSET Paths, unstaged : SUBSET TrackedPaths,
     untracked : SUBSET (Paths \ TrackedPaths), stored : {{}}]

\* the answers of git in a project that does not ignore .ralph-mem: the stored
\* files are untracked files of the working tree
StorageAnswers ==
    [staged : SUBSET {"a"}, unstaged : {{}}, untracked : {{}}, stored : SUBSET StoredPaths]

NoChanges == [staged |-> {}, unstaged |-> {}, untracked |-> {}, stored |-> {}]

\* "ok": the root holds .git and git runs; "norepo": no .git; "fails": git raises
GitModes == {"ok", "norepo", "fails"}

\* getModifiedFiles(projectPath): part_013:74-120
getModifiedFiles(T, mode, answer) ==
    IF mode # "ok" THEN {}
    ELSE {p \in answer.staged \cup answer.unstaged \cup answer.untracked :
              T.files[p] # Absent}

\* the stored files among the files that getModifiedFiles returns, S being the
\* snapshot root when the queries run: part_013:94-97, 113-115
getModifiedStored(S, mode, answer) ==
    IF mode # "ok" THEN {}
    ELSE {sp \in answer.stored : S[sp[1]].files[sp[2]] # Absent}

\* another snapshot operation runs while a cleanup() call is suspended
Interleave(C) ==
    IF C.phase \in {"listed", "deleting"} THEN [C EXCEPT !.interleaved = TRUE] ELSE C

\* a create() that writes no manifest when there is nothing to copy
SkipManifestWhenEmpty(modifiedFiles) == modifiedFiles # {}

\* create() writes the manifest whatever the list of files is: part_013:157-166
WritesManifest(modifiedFiles) == TRUE

\* create(runId): part_013:136-169
create(id, mode, answer) ==
    LET old == snapshots[id]
        modifiedFiles == getModifiedFiles(tree, mode, answer)
        copied == [p \in Paths |->
                      IF p \in modifiedFiles THEN tree.files[p] ELSE old.files[p]]
        written == WritesManifest(modifiedFiles)
        modifiedStored == getModifiedStored(snapshots, mode, answer)
    IN /\ snapshots' = [snapshots EXCEPT ![id] =
             [exists |-> TRUE,
              files |-> IF written THEN [copied EXCEPT ![ManifestName] = ManifestContent]
                        ELSE copied,
              hasManifest |-> written \/ copied[ManifestName] # Absent,
              createdAt |-> IF written THEN now ELSE old.createdAt,
              listed |-> IF written THEN modifiedFiles ELSE old.listed,
              origin |-> [p \in Paths |->
                             IF p \in modifiedFiles THEN tree.files[p] ELSE Absent],
              clean |-> mode # "ok" \/ answer = NoChanges,
              nested |-> [sp \in StoredPaths |->
                             IF sp \in modifiedStored THEN snapshots[sp[1]].files[sp[2]]
                             ELSE old.nested[sp]],
              listedStored |-> IF written THEN modifiedStored ELSE old.listedStored]]
       /\ snapshotOp' = [op |-> "create", id |-> id, error |-> None]
       /\ cleanupCall' = Interleave(cleanupCall)
       /\ UNCHANGED <<engineState, store, hook, now, probe, manager, evaluator, tree>>

\* a restore() that does not look whether the path exists
PathAlwaysExists(snapshot) == TRUE

\* existsSync(snapshotPath): part_013:172
PathExists(snapshot) == snapshot.exists

\* restore() copies file p of the snapshot back into the tree: part_013:189-198
RestoredFiles(T, snapshot) ==
    [T EXCEPT !.files = [p \in Paths |->
                            IF p \in snapshot.listed /\ snapshot.files[p] # Absent
                            THEN snapshot.files[p] ELSE T.files[p]],
              !.dir = @ \/ ("d/b" \in snapshot.listed /\ snapshot.files["d/b"] # Absent)]

\* restore() copies the stored files that the snapshot lists and holds back to
\* their place in the snapshot root, making the directory anew: part_013:189-198
RestoredStorage(S, snapshot) ==
    [r \in SnapshotIds |->
        LET back == {sp \in snapshot.listedStored :
                        sp[1] = r /\ snapshot.nested[sp] # Absent}
        IN IF back = {} THEN S[r]
           ELSE [S[r] EXCEPT !.exists = TRUE,
                             !.files = [p \in Paths |->
                                           IF <<r, p>> \in back THEN snapshot.nested[<<r, p>>]
                                           ELSE S[r].files[p]]]]

\* restore(snapshotPath): part_013:171-200
restore(id) ==
    LET snapshot == snapshots[id]
    IN /\ IF ~PathExists(snapshot)
          THEN /\ snapshotOp' = [op |-> "restore", id |-> id, error |-> "Snapshot not found"]
               /\ UNCHANGED <<tree, snapshots>>
          ELSE IF ~snapshot.hasManifest
          THEN /\ snapshotOp' = [op |-> "restore", id |-> id, error |-> "Invalid snapshot"]
               /\ UNCHANGED <<tree, snapshots>>
          ELSE /\ snapshotOp' = [op |-> "restore", id |-> id, error |-> None]
               /\ tree' = RestoredFiles(tree, snapshot)
               /\ snapshots' = RestoredStorage(snapshots, snapshot)
       /\ UNCHANGED <<engineState, store, hook, now, probe, manager, evaluator, cleanupCall>>

\* delete(snapshotPath): part_013:202-206
delete(id) ==
    /\ snapshots' = [snapshots EXCEPT ![id] = NoSnapshot]
    /\ snapshotOp' = [op |-> "delete", id |-> id, error |-> None]
    /\ cleanupCall' = Interleave(cleanupCall)
    /\ UNCHANGED <<engineState, store, hook, now, probe, manager, evaluator, tree>>

\* somebody makes an empty directory in the snapshot root
MakeDirectory(id) ==
    /\ ~snapshots[id].exists
    /\ snapshots' = [snapshots EXCEPT ![id] = [NoSnapshot EXCEPT !.exists = TRUE]]
    /\ snapshotOp' = [op |-> "mkdir", id |-> id, error |-> None]
    /\ cleanupCall' = Interleave(cleanupCall)
    /\ UNCHANGED <<engineState, store, hook, now, probe, manager, evaluator, tree>>

\* the iteration callback or the user writes a file of the working tree
WriteFile(p, content) ==
    /\ tree.files[p] # content
    /\ tree' = [tree EXCEPT !.files[p] = content, !.dir = @ \/ p = "d/b"]
    /\ snapshotOp' = [op |-> "edit", id |-> None, error |-> None]
    /\ UNCHANGED <<engineState, store, hook, now, probe, manager, evaluator, snapshots, cleanupCall>>

\* ... or removes a file, or the directory d once it is empty
RemoveFile(p) ==
    /\ tree.files[p] # Absent
    /\ tree' = [tree EXCEPT !.files[p] = Absent]
    /\ snapshotOp' = [op |-> "edit", id |-> None, error |-> None]
    /\ UNCHANGED <<engineState, store, hook, now, probe, manager, evaluator, snapshots, cleanupCall>>

RemoveDirectory ==
    /\ tree.dir
    /\ tree.files["d/b"] = Absent
    /\ tree' = [tree EXCEPT !.dir = FALSE]
    /\ snapshotOp' = [op |-> "edit", id |-> None, error |-> None]
    /\ UNCHANGED <<engineState, store, hook, now, probe, manager, evaluator, snapshots, cleanupCall>>

\* the order in which readdirSync returns the entries of the snapshot root
ReaddirOrder == <<"r1", "r2">>

Position(id) == CHOOSE i \in DOMAIN ReaddirOrder : ReaddirOrder[i] = id

\* snapshots.sort((a, b) => b.createdAt - a.createdAt), a stable sort: part_013:238-240
RECURSIVE NewestFirst(_, _)
NewestFirst(S, ids) ==
    IF ids = {} THEN << >>
    ELSE LET first == CHOOSE id \in ids : \A other \in ids :
                          \/ S[id].createdAt > S[other].createdAt
                          \/ /\ S[id].createdAt = S[other].createdAt
                             /\ Position(id) <= Position(other)
         IN <<[runId |-> first, createdAt |-> S[first].createdAt,
               fileCount |-> Cardinality(S[first].listed)]>>
            \o NewestFirst(S, ids \ {first})

\* list(): part_013:208-241
list(S) == NewestFirst(S, {id \in SnapshotIds : S[id].exists /\ S[id].hasManifest})

\* a cleanup that also deletes the snapshots made exactly at the cutoff
IsNotNewer(createdAt, cutoff) == createdAt <= cutoff

\* snapshot.createdAt.getTime() < cutoff: part_013:249
IsOlder(createdAt, cutoff) == createdAt < cutoff

\* cleanup(maxAge) up to its first await: part_013:243-244
cleanup(maxAge) ==
    /\ cleanupCall.phase \in {"idle", "returned"}
    /\ cleanupCall' = [NoCleanup EXCEPT !.phase = "listed", !.maxAge = maxAge,
                                        !.listed = list(snapshots), !.pos = 1]
    /\ snapshotOp' = [op |-> "cleanup", id |-> None, error |-> None]
    /\ UNCHANGED <<engineState, store, hook, now, probe, manager, evaluator, tree, snapshots>>

\* the position of the next snapshot of the list that is older than the cutoff,
\* one past the end of the list when there is none
RECURSIVE NextOld(_, _, _)
NextOld(listed, pos, cutoff) ==
    IF pos > Len(listed) THEN pos
    ELSE IF IsOlder(listed[pos].createdAt, cutoff) THEN pos
    ELSE NextOld(listed, pos + 1, cutoff)

\* cleanup() resumes after an await and runs to the next await or to its
\* return: part_013:245-255
CleanupResumes ==
    /\ cleanupCall.phase \in {"listed", "deleting"}
    /\ LET cutoff == IF cleanupCall.phase = "listed" THEN now - cleanupCall.maxAge
                     ELSE cleanupCall.cutoff
           pos == NextOld(cleanupCall.listed, cleanupCall.pos, cutoff)
       IN IF pos > Len(cleanupCall.listed)
          THEN /\ cleanupCall' = [cleanupCall EXCEPT !.phase = "returned",
                                                     !.cutoff = cutoff, !.pos = pos]
               /\ UNCHANGED snapshots
          ELSE LET id == cleanupCall.listed[pos].runId
               IN /\ cleanupCall' =
                        [cleanupCall EXCEPT
                           !.phase = "deleting", !.cutoff = cutoff, !.pos = pos + 1,
                           !.deletedCount = @ + 1,
                           !.removed = IF snapshots[id].exists THEN @ \cup {id} ELSE @]
                  /\ snapshots' = [snapshots EXCEPT ![id] = NoSnapshot]
    /\ snapshotOp' = [op |-> "cleanup", id |-> None, error |-> None]
    /\ UNCHANGED <<engineState, store, hook, now, probe, manager, evaluator, tree>>

\* time passes between snapshot operations
SnapshotTick ==
    /\ now < MaxTime
    /\ now' = now + 1
    /\ UNCHANGED <<engineState, others>>

\* two snapshot ids, a clock, and a working tree in which nothing changes
NextCleanup ==
    \/ \E id \in SnapshotIds : create(id, "ok", NoChanges)
    \/ \E id \in SnapshotIds : delete(id)
    \/ \E id \in SnapshotIds : MakeDirectory(id)
    \/ \E maxAge \in 0..MaxTime : cleanup(maxAge)
    \/ CleanupResumes
    \/ SnapshotTick

InitSnapshot ==
    /\ InitEngine
    /\ probe = Idle
    /\ manager = Idle
    /\ evaluator = Idle
    /\ InitSnapshotManager
    /\ store = Idle
    /\ hook = Idle
    /\ now = 0

\* one snapshot id and a working tree that changes in every way
NextSnapshot ==
    \/ \E answer \in GitAnswers : create("r1", "ok", answer)
    \/ \E mode \in GitModes \ {"ok"} : create("r1", mode, NoChanges)
    \/ restore("r1")
    \/ delete("r1")
    \/ MakeDirectory("r1")
    \/ \E p \in Paths, content \in Contents : WriteFile(p, content)
    \/ \E p \in Paths : RemoveFile(p)
    \/ RemoveDirectory

SpecSnapshot == InitSnapshot /\ [][NextSnapshot]_vars

SpecCleanup == InitSnapshot /\ [][NextCleanup]_vars

\* two snapshot ids in a project whose .ralph-mem directory git does not ignore
NextStorage ==
    \/ \E id \in SnapshotIds, answer \in StorageAnswers : create(id, "ok", answer)
    \/ \E id \in SnapshotIds : restore(id)
    \/ \E id \in SnapshotIds : delete(id)
    \/ \E content \in Contents : WriteFile("a", content)

SpecStorage == InitSnapshot /\ [][NextStorage]_vars

\* ------------------------------------------------------------- memory store
\* the lengths of the contents handed to addObservation
ContentLengths == {0, 1, 4, 5}

ErrNoSession == "No active session. Call createSession first."

\* an estimate that rounds down
estimateTokensFloor(length) == length \div 4

\* estimateTokens: Math.ceil(text.length / 4), store.ts:109-111
estimateTokens(length) == (length + 3) \div 4

\* createMemoryStore(): store.ts:116-125; currentSessionId 0 is null
NewStore ==
    [fn |-> "store", currentSessionId |-> 0, tokenCount |-> 0,
     sessions |-> 0,            \* sessions created by the client so far
     observations |-> 0,        \* addObservation() calls made so far
     added |-> << >>,           \* lengths of the contents stored since the last createSession()
     lastCall |-> None, lastError |-> None]

\* createSession(projectPath): store.ts:128-133
createSession ==
    /\ store.fn = "store"
    /\ store.sessions < MaxSessions
    /\ store' = [store EXCEPT !.sessions = @ + 1, !.currentSessionId = store.sessions + 1,
                              !.tokenCount = 0, !.added = << >>,
                              !.lastCall = "createSession", !.lastError = None]
    /\ UNCHANGED <<engineState, hook, now, probe, manager, evaluator, snapshotVars>>

\* endSession(summary): store.ts:147-156
endSession ==
    /\ store.fn = "store"
    /\ store' = IF store.currentSessionId = 0
                THEN [store EXCEPT !.lastCall = "endSession", !.lastError = None]
                ELSE [store EXCEPT !.currentSessionId = 0, !.tokenCount = 0,
                                   !.lastCall = "endSession", !.lastError = None]
    /\ UNCHANGED <<engineState, hook, now, probe, manager, evaluator, snapshotVars>>

\* addObservation(obs), obs.content of the given length: store.ts:158-175
addObservation(length) ==
    /\ store.fn = "store"
    /\ store.observations < MaxObservations
    /\ store' = IF store.currentSessionId = 0
                THEN [store EXCEPT !.observations = @ + 1,
                                   !.lastCall = "addObservation", !.lastError = ErrNoSession]
                ELSE [store EXCEPT !.observations = @ + 1,
                                   !.tokenCount = @ + estimateTokens(length),
                                   !.added = Append(@, length),
                                   !.lastCall = "addObservation", !.lastError = None]
    /\ UNCHANGED <<engineState, hook, now, probe, manager, evaluator, snapshotVars>>

\* getTokenCount(): store.ts:210-212
getTokenCount == store.tokenCount

InitStore ==
    /\ InitEngine
    /\ probe = Idle
    /\ manager = Idle
    /\ evaluator = Idle
    /\ InitSnapshotManager
    /\ now = 0
    /\ store = NewStore
    /\ hook = Idle

NextStore ==
    \/ createSession
    \/ endSession
    \/ \E length \in ContentLengths : addObservation(length)

SpecStore == InitStore /\ [][NextStore]_vars

\* ---------------------------------------------------------------- stop hook
\* the rows of the sessions table and of the loop_runs table that the hook can
\* name: a session is absent, open (ended_at is null) or ended; a run is absent
\* or has a status
HookSessions == {"s1", "s2"}
HookRuns == {"r1", "r2"}
SessionStates == {"absent", "open", "ended"}
LoopStates == {"absent", "running", "success", "failed", "stopped"}

\* no stopHook call was made yet
NoHookCall ==
    [sessionId |-> None, activeLoopRunId |-> None, session |-> None, run |-> None,
     sessionEnded |-> FALSE, loopStopped |-> FALSE]

\* a hook that looks for the session row only
SessionExists(session) == session # "absent"

\* !(!session || session.ended_at): stop.ts:60-61
IsActiveSession(session) == session = "open"

\* UPDATE loop_runs SET status = 'stopped' WHERE id = ? AND status = 'running':
\* stop.ts:73-81
StopRunning(loops, id) ==
    IF id \in DOMAIN loops /\ loops[id] = "running"
    THEN [loops EXCEPT ![id] = "stopped"]
    ELSE loops

\* client.endSession(sessionId, summary): stop.ts:90
EndSessionRow(sessions, id) == [sessions EXCEPT ![id] = "ended"]

\* stopHook({sessionId, activeLoopRunId}): stop.ts:58-96; activeLoopRunId is
\* None when the context names no run
StopHookCall(sessionId, activeLoopRunId) ==
    /\ hook.fn = "hook"
    /\ hook.calls < MaxHookCalls
    /\ LET session == hook.sessions[sessionId]
           run == IF activeLoopRunId = None THEN None ELSE hook.loops[activeLoopRunId]
           Call(ended, stopped) ==
               [sessionId |-> sessionId, activeLoopRunId |-> activeLoopRunId,
                session |-> session, run |-> run,
                sessionEnded |-> ended, loopStopped |-> stopped]
       IN hook' =
            IF ~IsActiveSession(session)
            THEN [hook EXCEPT !.calls = @ + 1, !.last = Call(FALSE, FALSE)]
            ELSE [hook EXCEPT
                    !.calls = @ + 1,
                    !.loops = IF activeLoopRunId # None
                              THEN StopRunning(@, activeLoopRunId) ELSE @,
                    !.sessions = EndSessionRow(@, sessionId),
                    !.last = Call(TRUE, activeLoopRunId # None)]
    /\ UNCHANGED <<engineState, store, now, probe, manager, evaluator, snapshotVars>>

InitHook ==
    /\ InitEngine
    /\ probe = Idle
    /\ manager = Idle
    /\ evaluator = Idle
    /\ InitSnapshotManager
    /\ store = Idle
    /\ now = 0
    /\ \E sessions \in [HookSessions -> SessionStates], loops \in [HookRuns -> LoopStates] :
          hook = [fn |-> "hook", sessions |-> sessions, loops |-> loops,
                  calls |-> 0, last |-> NoHookCall]

NextHook ==
    \E sessionId \in HookSessions, activeLoopRunId \in HookRuns \cup {None} :
        StopHookCall(sessionId, activeLoopRunId)

SpecHook == InitHook /\ [][NextHook]_vars

\* ------------------------------------------- shouldStop as a pure function
LoopRunStates ==
    [iterations : 0..MaxProbe, startedAt : 0..MaxProbe, noProgressCount : 0..MaxProbe]

StopConditionsSet ==
    [maxIterations : 1..MaxProbe, maxDurationMs : 1..MaxProbe,
     noProgressThreshold : 1..MaxProbe]

\* shouldStop(state, conditions) is called at time now: stop-conditions.ts:81-114
ShouldStopCall ==
    /\ probe.fn = "shouldStop"
    /\ probe.out = "pending"
    /\ probe' = [probe EXCEPT !.out = shouldStop(probe.state, probe.conditions, now)]
    /\ UNCHANGED <<engineState, store, hook, now, manager, evaluator, snapshotVars>>

InitShouldStop ==
    /\ InitEngine
    /\ manager = Idle
    /\ evaluator = Idle
    /\ InitSnapshotManager
    /\ store = Idle
    /\ hook = Idle
    /\ now \in 0..MaxProbe
    /\ \E st \in LoopRunStates, c \in StopConditionsSet :
          /\ st.startedAt <= now
          /\ probe = [fn |-> "shouldStop", given |-> st, state |-> st,
                      conditions |-> c, out |-> "pending"]

SpecShouldStop == InitShouldStop /\ [][ShouldStopCall]_vars

\* ------------------------------------------------------------------ claims
InFlight(e) == {r \in RunIds : loop[r].engine = e /\ loop[r].pc = "callback"}
ActiveLoops(e) == {r \in RunIds : loop[r].engine = e /\ loop[r].pc \in {"callback", "cooldown"}}

\* C1: if stop() is called while a run is running, the start() that created the
\* run returns reason "stopped" with success = false and the run's persisted
\* status is stopped, whatever the in-flight iteration returns.
C1_StopGivesStopped ==
    \A r \in RunIds :
        (loop[r].stopCalled /\ loop[r].pc = "done")
            => /\ loop[r].result.reason = "stopped"
               /\ loop[r].result.success = FALSE
               /\ runs[r].status = "stopped"

\* C2: once a run's persisted status is success, failed or stopped, no step
\* changes its status or its iterations count.
C2_TerminalImmutable ==
    [][\A r \in RunIds :
          (runs[r].status \in Terminal /\ r \in DOMAIN runs')
              => /\ runs'[r].status = runs[r].status
                 /\ runs'[r].iterations = runs[r].iterations]_vars

\* C3: in every reachable state at most one run of the session has status running.
C3_AtMostOneRunning ==
    Cardinality({r \in RunIds : runs[r].status = "running"}) <= 1

\* a run of one engine is running while the loop of a stopped run of the other
\* engine is still in flight
C3_Witness ==
    \E r1, r2 \in RunIds :
        /\ loop[r1].engine # loop[r2].engine
        /\ runs[r1].status = "stopped" /\ loop[r1].pc = "callback"
        /\ runs[r2].status = "running" /\ loop[r2].pc = "callback"

\* C4: for one engine at most one iteration callback is in flight at a time and
\* no two loops of the engine execute iterations concurrently.
C4_IterationsNeverOverlap ==
    \A e \in Engines :
        /\ Cardinality(InFlight(e)) <= 1
        /\ Cardinality(ActiveLoops(e)) <= 1

\* C5: a run begins no further iteration once the elapsed time has reached
\* maxDurationMs or the no-progress count has reached noProgressThreshold.
C5_StopConditionsApplied ==
    [][\A r \in RunIds :
          (r \in DOMAIN runs' /\ runs'[r].iterations > runs[r].iterations)
              => shouldStop(loopRunToState(runs[r]),
                            Conditions(runs[r].max_iterations), now) = None]_vars

\* C6: start() on an engine with no iteration callback registered fails before
\* any state is mutated: it creates no run record (hence persists no counter,
\* fires no observer and writes no summary).
C6_ConfigErrorBeforeMutation ==
    [][\A e \in Engines :
          ~iterationCallback[e]
              => \A r \in DOMAIN loop' : r \notin DOMAIN loop => loop'[r].engine # e]_vars

\* C7: start() called while a run of the session is running mutates nothing: no
\* record is created, the existing records are unchanged, and every engine keeps
\* its stop flag and its current-run reference.
C7_AlreadyRunningMutatesNothing ==
    [][(calls' = calls + 1 /\ getActiveLoopRun(runs) # 0)
          => UNCHANGED <<runs, summaries, loop, currentLoopRun, stopRequested,
                         currentIteration>>]_vars

\* a start() was rejected on account of a run that is still running, while the
\* stop flag of an engine is set
C7_Witness ==
    \E r \in RunIds :
        /\ runs[r].status = "running"
        /\ calls > r
        /\ \E e \in Engines : stopRequested[e]

\* C8: if the iteration callback raises during iteration N, no further iteration
\* is started, the run's status becomes failed and start() returns
\* {success:false, iterations:N, reason:"error", error:<the message>}.
C8_CallbackRaiseFailsRun ==
    \A r \in RunIds :
        loop[r].cbRaised > 0
            => /\ loop[r].pc = "done"
               /\ loop[r].result = [success |-> FALSE, iterations |-> loop[r].cbRaised,
                                     reason |-> "error", error |-> ErrCallback]
               /\ loop[r].cbCount = loop[r].cbRaised
               /\ runs[r].status = "failed"

\* C9: start() always resolves with a LoopResult and never rejects or throws,
\* in whatever engine state it is called and whatever the callback and the
\* observers do.
C9_StartAlwaysResolves ==
    [][/\ calls' = calls + 1 => DOMAIN loop' # DOMAIN loop
       /\ \A r \in DOMAIN loop' : loop'[r].pc # "threw"]_vars

\* C10: with no stop() issued and nothing raising, a callback that returns
\* success for the first time at iteration k makes start() return
\* {success:true, iterations:k, reason:"success"}, the run's status success, and
\* was invoked exactly k times.
C10_SuccessAtFirstSuccess ==
    \A r \in RunIds :
        (~disturbed[loop[r].engine] /\ loop[r].firstSuccess > 0)
            => /\ loop[r].pc = "done"
               /\ loop[r].result = [success |-> TRUE, iterations |-> loop[r].firstSuccess,
                                     reason |-> "success", error |-> None]
               /\ runs[r].status = "success"
               /\ loop[r].cbCount = loop[r].firstSuccess

\* the scenario of the specification: success at iteration 2 of an undisturbed
\* run, the first iteration having failed
C10_Witness ==
    \E r \in RunIds :
        /\ ~disturbed[loop[r].engine]
        /\ loop[r].firstSuccess = 2
        /\ loop[r].maxIterations >= 2
        /\ loop[r].pc = "done"

\* C11: with no stop() issued and nothing raising, a callback that never returns
\* success makes start() return {success:false, iterations:maxIterations,
\* reason:"max_iterations"} after exactly maxIterations invocations, the run's
\* status is failed, and result.error is the error of the most recent iteration
\* that reported one (absent if none did).
C11_BudgetExhausted ==
    \A r \in RunIds :
        (~disturbed[loop[r].engine] /\ loop[r].pc = "done" /\ loop[r].firstSuccess = 0)
            => /\ loop[r].result = [success |-> FALSE, iterations |-> loop[r].maxIterations,
                                     reason |-> "max_iterations", error |-> loop[r].reported]
               /\ runs[r].status = "failed"
               /\ loop[r].cbCount = loop[r].maxIterations

\* the scenario of the specification: two failing iterations of a budget of two,
\* one of which reported an error
C11_Witness ==
    \E r \in RunIds :
        /\ ~disturbed[loop[r].engine]
        /\ loop[r].pc = "done"
        /\ loop[r].firstSuccess = 0
        /\ loop[r].maxIterations = 2
        /\ loop[r].result.iterations = 2
        /\ loop[r].result.error \in Errors

\* C12: for every LoopRunState and StopConditions, shouldStop returns
\* max_iterations whenever iterations >= maxIterations; otherwise max_duration
\* whenever the elapsed time >= maxDurationMs; otherwise no_progress whenever
\* noProgressCount >= noProgressThreshold; otherwise none; and it never modifies
\* the state.
C12_ShouldStopPriority ==
    (probe.fn = "shouldStop" /\ probe.out # "pending")
        => LET iterationsHit == probe.given.iterations >= probe.conditions.maxIterations
               durationHit == now - probe.given.startedAt >= probe.conditions.maxDurationMs
               noProgressHit ==
                   probe.given.noProgressCount >= probe.conditions.noProgressThreshold
           IN /\ iterationsHit => probe.out = "max_iterations"
              /\ (~iterationsHit /\ durationHit) => probe.out = "max_duration"
              /\ (~iterationsHit /\ ~durationHit /\ noProgressHit)
                     => probe.out = "no_progress"
              /\ (~iterationsHit /\ ~durationHit /\ ~noProgressHit) => probe.out = None
              /\ probe.state = probe.given

\* the example of the specification: all three conditions hold at once
C12_Witness ==
    /\ probe.fn = "shouldStop"
    /\ probe.out = "max_iterations"
    /\ probe.given.iterations >= probe.conditions.maxIterations
    /\ now - probe.given.startedAt >= probe.conditions.maxDurationMs
    /\ probe.given.noProgressCount >= probe.conditions.noProgressThreshold

\* C13: the first call to recordIteration on a stop-condition manager never
\* changes noProgressCount, whatever the output is and whatever detector is
\* plugged in, and the detector is not consulted on that call.
C13_FirstRecordKeepsCount ==
    [][(manager.fn = "manager" /\ manager.recordCalls = 0 /\ manager'.recordCalls = 1)
          => /\ manager'.state.noProgressCount = manager.state.noProgressCount
             /\ manager'.consulted = manager.consulted
             /\ manager'.waiting = {} /\ manager'.ready = << >>
             /\ manager'.lastReturn = manager.state.noProgressCount]_vars

\* the first call was made with the empty string on a manager with a judge
C13_Witness ==
    /\ manager.fn = "manager"
    /\ manager.detector = "judge"
    /\ manager.recordCalls = 1
    /\ manager.state.iterations = 1
    /\ manager.lastOutput = << >>
    /\ manager.state.noProgressCount = 0

\* C14 as stated: for the heuristic detector and any two outputs, identical
\* outputs give no progress, a strictly smaller count of error-indicating
\* patterns in current than in prev gives progress, and a strictly larger count
\* gives no progress.
C14_ErrorCountDecides ==
    (probe.fn = "detectProgress" /\ probe.done)
        => /\ probe.prev = probe.current => ~probe.out
           /\ countErrors(probe.current) < countErrors(probe.prev) => probe.out
           /\ countErrors(probe.current) > countErrors(probe.prev) => ~probe.out

\* C14 amended: identical outputs give no progress; a strictly smaller count of
\* error-indicating patterns in a current output that is not blank gives
\* progress; a strictly larger count gives no progress.
C14_ErrorCountDecidesUnlessBlank ==
    (probe.fn = "detectProgress" /\ probe.done)
        => /\ probe.prev = probe.current => ~probe.out
           /\ (countErrors(probe.current) < countErrors(probe.prev)
                  /\ ~IsBlank(probe.current)) => probe.out
           /\ countErrors(probe.current) > countErrors(probe.prev) => ~probe.out

\* two errors before, one error now, and the detector reports progress
C14_Witness ==
    /\ probe.fn = "detectProgress"
    /\ probe.done
    /\ countErrors(probe.prev) = 2
    /\ countErrors(probe.current) = 1
    /\ probe.out

\* C15: evaluateAll evaluates the criteria strictly in the given order and stops
\* at the first failure: when the first failing criterion is at position j,
\* exactly criteria 1..j are executed, the output holds exactly j blocks in
\* order, and the returned reason and exit code are those of criterion j;
\* evaluateAll succeeds iff every criterion succeeds, and an empty list succeeds
\* without executing anything.
C15_EvaluateAllShortCircuits ==
    evaluator.fn = "evaluator"
        => LET k == Len(evaluator.outcomes)
               n == Len(evaluator.criteria)
           IN /\ \A i \in DOMAIN evaluator.executed : evaluator.executed[i] = i
              /\ \A i \in DOMAIN evaluator.outcomes :
                     ~evaluator.outcomes[i].success => Len(evaluator.executed) = i
              /\ evaluator.phase = "returned"
                   => /\ Len(evaluator.executed) = k
                      /\ Len(evaluator.blocks) = k
                      /\ \A i \in 1..k : evaluator.blocks[i] = evaluator.criteria[i].type
                      /\ evaluator.result.success
                            <=> (k = n /\ \A i \in 1..k : evaluator.outcomes[i].success)
                      /\ ~evaluator.result.success
                            => /\ k >= 1
                               /\ ~evaluator.outcomes[k].success
                               /\ \A i \in 1..(k - 1) : evaluator.outcomes[i].success
                               /\ evaluator.result.reason = evaluator.outcomes[k].reason
                               /\ evaluator.result.exitCode = evaluator.outcomes[k].exitCode
                      /\ n = 0 => /\ evaluator.result.success
                                  /\ evaluator.executed = << >>
                                  /\ evaluator.spawned = << >>

\* the command of the first of two criteria exited with an unexpected code:
\* evaluateAll returned its failure and one block
C15_Witness ==
    /\ evaluator.fn = "evaluator"
    /\ evaluator.phase = "returned"
    /\ Len(evaluator.criteria) = 2
    /\ evaluator.executed = <<1>>
    /\ Len(evaluator.blocks) = 1
    /\ evaluator.result.reason = "failed with exit code"

\* C16: whenever the timeout elapses before the spawned command has completed,
\* evaluate returns success = false, exitCode = -1 and reason "Command timed
\* out" with the suggestion to raise the timeout, whatever the expected exit code
\* is, and the command is spawned exactly once per evaluate call.
C16_TimeoutReported ==
    evaluator.fn = "evaluator"
        => /\ \A i \in DOMAIN evaluator.outcomes :
                  evaluator.timedOut[i]
                      => evaluator.outcomes[i] =
                             EvaluationResult(FALSE, "Command timed out", "-1", TRUE)
           /\ \A i \in DOMAIN evaluator.spawned :
                  evaluator.spawned[i] =
                      IF HasCommand(evaluator.criteria[evaluator.executed[i]]) THEN 1 ELSE 0

\* C17: snapshot round trip: after create(runId) has captured the modified files
\* and the files have been changed arbitrarily, restore(snapshotPath) returns
\* every manifest-listed file to the content it had when create ran, recreating
\* a missing directory, and leaves every file that the manifest does not list
\* untouched.
C17_SnapshotRoundTrip ==
    [][(snapshotOp'.op = "restore" /\ snapshotOp'.error = None)
          => LET snapshot == snapshots[snapshotOp'.id]
             IN /\ \A p \in Paths :
                       tree'.files[p] = IF p \in snapshot.listed THEN snapshot.origin[p]
                                        ELSE tree.files[p]
                /\ "d/b" \in snapshot.listed => tree'.dir]_vars

\* C18: restore(path) fails with "Snapshot not found" when the path does not
\* exist and with "Invalid snapshot" when the path exists but holds no manifest;
\* in both cases no file of the working tree is created or modified.
C18_RestoreRejects ==
    [][snapshotOp'.op = "restore"
          => LET snapshot == snapshots[snapshotOp'.id]
             IN /\ ~snapshot.exists
                     => snapshotOp'.error = "Snapshot not found" /\ tree' = tree
                /\ (snapshot.exists /\ ~snapshot.hasManifest)
                     => snapshotOp'.error = "Invalid snapshot" /\ tree' = tree]_vars

\* restore() was refused on a directory without a manifest, after the working
\* tree had left its committed state
C18_Witness ==
    /\ snapshotOp.op = "restore"
    /\ snapshotOp.error = "Invalid snapshot"
    /\ tree # CleanTree

\* what C19 asks of a cleanup() call C that has returned, the snapshot root being S
CleanupExact(C, S) ==
    LET old == {i \in DOMAIN C.listed : C.listed[i].createdAt < C.cutoff}
    IN /\ C.removed = {C.listed[i].runId : i \in old}
       /\ C.deletedCount = Cardinality(C.removed)
       /\ \A i \in old : ~S[C.listed[i].runId].exists
       /\ \A i \in DOMAIN C.listed \ old :
              \E j \in DOMAIN list(S) :
                  /\ list(S)[j].runId = C.listed[i].runId
                  /\ list(S)[j].createdAt = C.listed[i].createdAt

\* C19 as stated: cleanup(maxAgeMs) deletes exactly the snapshots whose createdAt
\* is older than now - maxAgeMs, returns the number it deleted, and leaves every
\* newer snapshot in place, so that list() still returns it afterwards.
C19_CleanupExact ==
    [][(cleanupCall'.phase = "returned" /\ cleanupCall.phase # "returned")
          => CleanupExact(cleanupCall', snapshots')]_vars

\* C19 amended: the same, for a cleanup() call during which no other operation
\* on the snapshot root ran between its call and its return.
C19_CleanupExactWhenAlone ==
    [][(cleanupCall'.phase = "returned" /\ cleanupCall.phase # "returned"
          /\ ~cleanupCall'.interleaved)
          => CleanupExact(cleanupCall', snapshots')]_vars

\* a cleanup() that ran alone has returned 1: it removed the older of two
\* snapshots and the newer one is still there
C19_Witness ==
    /\ cleanupCall.phase = "returned"
    /\ ~cleanupCall.interleaved
    /\ Len(cleanupCall.listed) = 2
    /\ cleanupCall.deletedCount = 1
    /\ Cardinality({id \in SnapshotIds : snapshots[id].hasManifest}) = 1

\* C20: create(runId) on a working tree with no modified, staged or untracked
\* files, or on a root that is not a tracked repository, still produces an
\* existing snapshot directory with a manifest {runId, createdAt, files} whose
\* files list is empty.
C20_CleanTreeSnapshot ==
    \A id \in SnapshotIds :
        snapshots[id].clean
            => /\ snapshots[id].exists
               /\ snapshots[id].hasManifest
               /\ snapshots[id].files[ManifestName] = ManifestContent
               /\ snapshots[id].listed = {}
               /\ snapshots[id].createdAt <= now

\* a snapshot was taken when nothing was reported as changed, after the tracked
\* file had been rewritten
C20_Witness ==
    /\ snapshotOp.op = "create"
    /\ snapshots["r1"].clean
    /\ snapshots["r1"].hasManifest
    /\ tree.files["a"] = "v2"

C22_ObserversFireAndForget ==
    \A r \in RunIds :
        /\ loop[r].pc # "threw"
        /\ loop[r].result.error # ErrObserver

\* the least k with 4k >= n
CeilOfQuarter(n) == CHOOSE k \in 0..n : 4 * k >= n /\ 4 * (k - 1) < n

RECURSIVE SumOfTokens(_)
SumOfTokens(lengths) ==
    IF lengths = << >> THEN 0
    ELSE CeilOfQuarter(Head(lengths)) + SumOfTokens(Tail(lengths))

\* C23: for a MemoryStore, after any sequence of createSession, addObservation
\* and endSession calls, getTokenCount() equals the sum of ceil(length/4) over
\* the contents of the observations added since the most recent createSession(),
\* and is 0 immediately after createSession() and after endSession();
\* addObservation with no active session fails with "No active session" and
\* leaves the count unchanged.
C23_TokenCount ==
    [][store'.fn = "store" =>
          /\ store'.currentSessionId # 0 => store'.tokenCount = SumOfTokens(store'.added)
          /\ store'.lastCall \in {"createSession", "endSession"} => store'.tokenCount = 0
          /\ (store'.lastCall = "addObservation" /\ store.currentSessionId = 0)
                => /\ store'.lastError = ErrNoSession
                   /\ store'.tokenCount = store.tokenCount
                   /\ store'.added = store.added
          /\ (store'.lastCall = "addObservation" /\ store.currentSessionId # 0)
                => store'.lastError = None]_vars

\* the second session of a store holds three observations of 1, 4 and 5
\* characters: the count is 1 + 1 + 2
C23_Witness ==
    /\ store.fn = "store"
    /\ store.currentSessionId = 2
    /\ store.added = <<1, 4, 5>>
    /\ getTokenCount = 4

\* no start() was accepted after run r was created
IsNewestRun(r) == \A r2 \in RunIds : r2 <= r

\* C24: stop() is cooperative: if stop() is called while iteration N's callback
\* is in flight and start() is not called again before the run returns, the
\* in-flight callback is not interrupted and runs to completion, and no
\* iteration N+1 callback is ever invoked for that run.
C24_StopIsCooperative ==
    [][\A r \in RunIds :
          /\ (loop[r].pc = "callback" /\ ~loop[r].stopCalled
                 /\ r \in DOMAIN loop' /\ loop'[r].stopCalled)
                => /\ loop'[r].pc = "callback"
                   /\ loop'[r].iteration = loop[r].iteration
          /\ (loop[r].stopCalled /\ IsNewestRun(r) /\ r \in DOMAIN loop' /\ IsNewestRun(r)')
                => /\ loop'[r].cbCount = loop[r].cbCount
                   /\ loop'[r].iteration = loop[r].iteration
                   /\ loop[r].pc = "callback" => loop'[r].pc \in {"callback", "done"}]_vars

\* stop() was called during the first iteration of a run with a budget of two,
\* no start() followed, the callback then reported a failure, and start()
\* has returned after one invocation
C24_Witness ==
    \E r \in RunIds :
        /\ loop[r].stopCalled
        /\ IsNewestRun(r)
        /\ loop[r].maxIterations = 2
        /\ loop[r].pc = "done"
        /\ loop[r].cbCount = 1
        /\ loop[r].firstSuccess = 0 /\ loop[r].cbRaised = 0
        /\ loop[r].result.reason = "stopped"

\* the order that C25 fixes for the events of one iteration
EventOrder == <<"persist", "start", "callback", "end">>

\* the events of run r so far in its current iteration are the first events of
\* the fixed order, each of them for that iteration and that run
InOrder(L, r) ==
    /\ Len(L.events) <= Len(EventOrder)
    /\ \A i \in DOMAIN L.events :
          /\ L.events[i].kind = EventOrder[i]
          /\ L.events[i].iteration = L.iteration
          /\ L.events[i].runId = r
    /\ L.pc = "callback" => Len(L.events) = 3
    /\ L.pc = "cooldown" => Len(L.events) = 4
    /\ Len(L.events) = 4 =>
          /\ L.events[4].result \in CallbackOutcomes \ {"raise"}
          /\ L.events[4].result = "ok" <=> L.firstSuccess = L.iteration

IsPrefix(s, t) == Len(s) <= Len(t) /\ SubSeq(t, 1, Len(s)) = s

\* C25: within a run, every executed iteration N produces its events in the
\* fixed order: counter persisted as N, then the iteration-start observer with N,
\* then the iteration callback with {iteration: N, task, runId}, then the
\* iteration-end observer with N and the callback's result; and all events of
\* iteration N precede all events of iteration N+1.
C25_IterationEventOrder ==
    [][\A r \in DOMAIN loop' :
          /\ InOrder(loop'[r], r)
          /\ Len(loop'[r].events) >= 1 => runs'[r].iterations = loop'[r].iteration
          /\ r \in DOMAIN loop =>
                \/ /\ loop'[r].iteration = loop[r].iteration
                   /\ IsPrefix(loop[r].events, loop'[r].events)
                \/ /\ loop'[r].iteration = loop[r].iteration + 1
                   /\ loop[r].iteration > 0 => Len(loop[r].events) = 4]_vars

\* the second iteration of a run has produced its four events, the last of them
\* with the result of a callback that succeeded
C25_Witness ==
    \E r \in RunIds :
        /\ loop[r].iteration = 2
        /\ Len(loop[r].events) = 4
        /\ loop[r].events[4] = Event("end", 2, r, "ok")
        /\ loop[r].pc = "done"

\* the step is the return of the callback of run r with a result that is not a
\* success
FailedIterationEnds(r) ==
    /\ r \in RunIds /\ r \in DOMAIN loop'
    /\ loop[r].pc = "callback"
    /\ Len(loop'[r].events) = 4 /\ Len(loop[r].events) = 3
    /\ loop'[r].events[4].result # "ok"

\* C26: after a non-successful iteration N the controller suspends for
\* cooldownMs before the next pass if and only if N < maxIterations and no stop
\* has been requested at that moment; it never suspends after the final
\* permitted iteration, after a successful iteration, or while a stop is pending.
C26_CooldownRule ==
    [][\A r \in DOMAIN loop' :
          /\ FailedIterationEnds(r)
                => (loop'[r].pc = "cooldown"
                      <=> /\ loop[r].iteration < loop[r].maxIterations
                          /\ ~stopRequested[loop[r].engine])
          /\ (loop'[r].pc = "cooldown" /\ (r \notin DOMAIN loop \/ loop[r].pc # "cooldown"))
                => /\ FailedIterationEnds(r)
                   /\ loop'[r].iteration < loop'[r].maxIterations
                   /\ ~stopRequested'[loop'[r].engine]
                   /\ loop'[r].firstSuccess = 0
                   /\ IsNewestRun(r) => ~loop[r].stopCalled]_vars

\* a run sleeps after the failure of the first of its two iterations
C26_Witness ==
    \E r \in RunIds :
        /\ loop[r].pc = "cooldown"
        /\ loop[r].iteration = 1
        /\ loop[r].maxIterations = 2
        /\ loop[r].events[4].result = "fail"
        /\ ~stopRequested[loop[r].engine]

\* the start() call that created run r has returned a result; a run that is no
\* longer tracked has returned
HasReturned(r) == r \in RunIds => loop[r].pc = "done"

\* C27: no runaway repetition: in any single start() call the iteration callback
\* is invoked at most maxIterations times, and provided every callback
\* invocation returns, start() eventually returns a result.
C27_NoRunawayRepetition ==
    /\ [](\A r \in RunIds : loop[r].cbCount <= loop[r].maxIterations)
    /\ \A r \in 1..Twice : (r \in RunIds) ~> HasReturned(r)

\* a start() has returned after as many invocations as its budget of two allows
C27_Witness ==
    \E r \in RunIds :
        /\ loop[r].pc = "done"
        /\ loop[r].maxIterations = 2
        /\ loop[r].cbCount = 2

\* the step is the resumption of the oldest recordIteration call whose detector
\* has settled
RecordReturns ==
    /\ manager.fn = "manager"
    /\ manager.ready # << >>
    /\ manager'.ready = Tail(manager.ready)

\* what C28 says of a call that returns in the step, and of identical outputs
RecordRule ==
    /\ RecordReturns =>
          LET call == Head(manager.ready)
          IN /\ call.prev = call.recorded
             /\ (manager.detector = "simple"
                   => call.hasProgress = detectProgress(call.recorded, call.output))
             /\ manager'.state.noProgressCount =
                   (IF call.hasProgress THEN 0 ELSE manager.state.noProgressCount + 1)
             /\ manager'.lastReturn = manager'.state.noProgressCount
             /\ manager'.lastOutput = call.output
    /\ (/\ manager'.fn = "manager" /\ manager'.recordCalls >= 1
        /\ manager'.identical /\ ~manager'.resets
        /\ manager'.waiting = {} /\ manager'.ready = << >>)
          => /\ manager'.state.noProgressCount = manager'.recordCalls - 1
             /\ (manager'.lastReason = "no_progress"
                   => manager'.recordCalls >= manager'.conditions.noProgressThreshold + 1)

\* C28 as stated: on every recordIteration call after the first, noProgressCount
\* becomes 0 if the detector reports progress between the previously recorded
\* output and the current one, and otherwise increases by exactly 1, and the
\* retained output becomes the one just recorded; hence k >= 1 consecutive
\* identical outputs recorded on a fresh manager leave noProgressCount = k-1, so
\* no_progress is reported only after noProgressThreshold+1 identical outputs.
C28_RecordUpdatesCount == [][RecordRule]_vars

\* C28 amended: the same, provided each recordIteration call has returned
\* before the next one is made.
C28_RecordUpdatesCountInTurn == [][~manager'.overlapped => RecordRule]_vars

\* three calls made in turn with the same output that holds an error: the count
\* is 2 and no_progress was reported
C28_Witness ==
    /\ manager.fn = "manager"
    /\ ~manager.overlapped /\ ~manager.resets /\ manager.identical
    /\ manager.recordCalls = 3
    /\ manager.waiting = {} /\ manager.ready = << >>
    /\ manager.lastOutput = <<"error">>
    /\ manager.state.noProgressCount = 2
    /\ manager.lastReason = "no_progress"

\* the output has a line that is not whitespace
HasText(output) == \E i \in DOMAIN output : output[i] # ""

\* the pattern is found in current and not in prev
NewlyPresent(pattern, prev, current) ==
    /\ \E i \in DOMAIN current : current[i] \in pattern
    /\ \A i \in DOMAIN prev : prev[i] \notin pattern

\* the rules of the heuristic detector in their order, each with the condition
\* under which it matches and the verdict it gives
DetectorRules(prev, current) ==
    << [matches |-> prev = current, progress |-> FALSE],
       [matches |-> ~HasText(current) /\ HasText(prev), progress |-> FALSE],
       [matches |-> countErrors(current) < countErrors(prev), progress |-> TRUE],
       [matches |-> countErrors(current) > countErrors(prev), progress |-> FALSE],
       [matches |-> \E pattern \in progressPatterns : NewlyPresent(pattern, prev, current),
        progress |-> TRUE],
       [matches |-> \E pattern \in regressionPatterns : NewlyPresent(pattern, prev, current),
        progress |-> FALSE],
       [matches |-> TRUE, progress |-> TRUE] >>

\* the position of the first rule that matches
FirstMatch(rules) ==
    CHOOSE i \in DOMAIN rules : rules[i].matches /\ \A j \in 1..(i - 1) : ~rules[j].matches

\* C29: the heuristic detector decides by the first matching rule in this fixed
\* order: identical outputs give no progress; a current output that is empty
\* after trimming while the previous one is not gives no progress; fewer error
\* indicators in current give progress; more give no progress; on a tie, a
\* success pattern present in current but not in previous gives progress; then
\* a regression pattern present in current but not in previous gives no
\* progress; otherwise progress.
C29_FirstMatchingRule ==
    (probe.fn = "detectProgress" /\ probe.done)
        => LET rules == DetectorRules(probe.prev, probe.current)
           IN probe.out = rules[FirstMatch(rules)].progress

\* the error counts tie, no success pattern is new, a regression pattern is new,
\* and the detector has reported no progress
C29_Witness ==
    /\ probe.fn = "detectProgress"
    /\ probe.done
    /\ FirstMatch(DetectorRules(probe.prev, probe.current)) = 6
    /\ ~probe.out

\* what C30 says of one settled call of the delegated-judgment detector
JudgedAsClaimed(call) ==
    IF call.prev = call.output
    THEN call.verdict = None /\ ~call.hasProgress
    ELSE /\ call.verdict \in JudgeVerdicts
         /\ call.verdict = "progress" => call.hasProgress
         /\ call.verdict = "no progress" => ~call.hasProgress
         /\ call.verdict = "raises"
               => call.hasProgress =
                     DetectorRules(call.prev, call.output)
                        [FirstMatch(DetectorRules(call.prev, call.output))].progress

\* C30: the delegated-judgment detector never raises and never aborts the loop:
\* for identical outputs it returns no progress without invoking the judge;
\* otherwise it returns the judge's verdict; and whenever the judge raises it
\* returns exactly what the heuristic detector returns for the same pair of
\* outputs.
C30_JudgeNeverAborts ==
    (manager.fn = "manager" /\ manager.detector = "judge")
        => /\ \A i \in DOMAIN manager.ready :
                 /\ manager.ready[i].hasProgress \in BOOLEAN
                 /\ JudgedAsClaimed(manager.ready[i])
           /\ \A call \in manager.waiting : call.prev # call.output

\* the judge raised on "error\n" followed by "ok\n" and the detector answered
\* progress, as the heuristic does
C30_Witness ==
    /\ manager.fn = "manager"
    /\ manager.detector = "judge"
    /\ manager.ready # << >>
    /\ Head(manager.ready).verdict = "raises"
    /\ Head(manager.ready).prev = <<"error">>
    /\ Head(manager.ready).output = <<"ok">>
    /\ Head(manager.ready).hasProgress

\* the evaluate() calls that returned because their command completed with an
\* exit code before the timeout
CompletedInTime(E) ==
    {i \in DOMAIN E.outcomes : E.closeCodes[i] \in {"0", "1"} /\ ~E.timedOut[i]}

\* C31: for a command that completes before the timeout, evaluate reports
\* success if and only if the command's actual exit code equals the criterion's
\* expected exit code (0 when none is given); in particular a command exiting 0
\* is a failure when a non-zero exit code is expected.
C31_SuccessIffExpectedExitCode ==
    evaluator.fn = "evaluator"
        => \A i \in CompletedInTime(evaluator) :
              LET criterion == evaluator.criteria[evaluator.executed[i]]
                  actual == evaluator.closeCodes[i]
              IN /\ criterion.expectedExitCode = None
                       => (evaluator.outcomes[i].success <=> actual = "0")
                 /\ criterion.expectedExitCode # None
                       => (evaluator.outcomes[i].success
                              <=> actual = criterion.expectedExitCode)
                 /\ evaluator.outcomes[i].exitCode = actual

\* a command exited 0 before the timeout where exit code 1 was expected, and
\* evaluate reported a failure
C31_Witness ==
    /\ evaluator.fn = "evaluator"
    /\ \E i \in CompletedInTime(evaluator) :
          /\ evaluator.criteria[evaluator.executed[i]].expectedExitCode = "1"
          /\ evaluator.closeCodes[i] = "0"
          /\ ~evaluator.outcomes[i].success

\* the evaluate() calls made for a Custom criterion that has no command
CustomWithoutCommand(E) ==
    {i \in DOMAIN E.executed :
        /\ E.criteria[E.executed[i]].type = "custom"
        /\ E.criteria[E.executed[i]].command = "absent"}

\* C32: evaluating a Custom criterion that has no command returns a structured
\* failure (success = false, reason "Custom criteria requires a command")
\* without raising and without spawning any process; inside evaluateAll it
\* counts as a failure that short-circuits the remaining criteria.
C32_CustomWithoutCommandFails ==
    evaluator.fn = "evaluator"
        => \A i \in CustomWithoutCommand(evaluator) :
              /\ i \in DOMAIN evaluator.outcomes
              /\ ~evaluator.outcomes[i].success
              /\ evaluator.outcomes[i].reason = "Custom criteria requires a command"
              /\ evaluator.outcomes[i].exitCode = None
              /\ evaluator.spawned[i] = 0
              /\ evaluator.closeCodes[i] = None
              /\ Len(evaluator.executed) = i
              /\ evaluator.phase = "returned"
              /\ ~evaluator.result.success
              /\ evaluator.result.reason = "Custom criteria requires a command"

\* the first of two criteria is a Custom criterion without a command:
\* evaluateAll returned its failure, spawned no process and left the second
\* criterion alone
C32_Witness ==
    /\ evaluator.fn = "evaluator"
    /\ Len(evaluator.criteria) = 2
    /\ 1 \in CustomWithoutCommand(evaluator)
    /\ evaluator.executed = <<1>>
    /\ evaluator.spawned = <<0>>
    /\ evaluator.phase = "returned"
    /\ evaluator.result.reason = "Custom criteria requires a command"

\* C33: criteria evaluation enforces a hard timeout: every evaluate call
\* eventually returns, whatever the command does, including commands that never
\* exit on their own or that do not react to the termination request (the
\* exit code -1 of an evaluation whose timer fired is the subject of C16).
C33_HardTimeout ==
    \A n \in 1..MaxCriteria :
        (evaluator.fn = "evaluator" /\ Len(evaluator.executed) = n)
            ~> (Len(evaluator.outcomes) >= n)

\* the step is a stopHook call
HookCalled == hook.fn = "hook" /\ hook'.calls = hook.calls + 1

\* C34: stopHook called for a session that does not exist or has already ended
\* returns sessionEnded = false and loopStopped = false and changes nothing: the
\* session record and the loop run named by activeLoopRunId keep their values;
\* hence a second stopHook call for the same session is a no-op.
C34_StopHookOnEndedSession ==
    [][HookCalled =>
          LET sessionId == hook'.last.sessionId
          IN /\ hook.sessions[sessionId] \in {"absent", "ended"}
                   => /\ ~hook'.last.sessionEnded
                      /\ ~hook'.last.loopStopped
                      /\ hook'.sessions = hook.sessions
                      /\ hook'.loops = hook.loops
             /\ hook.last.sessionId = sessionId
                   => /\ ~hook'.last.sessionEnded
                      /\ ~hook'.last.loopStopped
                      /\ hook'.sessions = hook.sessions
                      /\ hook'.loops = hook.loops]_vars

\* the second call of the hook named an ended session and a run that is
\* running: it reported nothing ended and nothing stopped, and the run is still
\* running
C34_Witness ==
    /\ hook.fn = "hook"
    /\ hook.calls = 2
    /\ hook.last.session = "ended"
    /\ hook.last.run = "running"
    /\ hook.loops[hook.last.activeLoopRunId] = "running"
    /\ ~hook.last.sessionEnded
    /\ ~hook.last.loopStopped

\* C38: stopHook returns loopStopped = true only if that call actually
\* transitioned a loop run from running to stopped; when activeLoopRunId names
\* no existing run or a run whose status is already success, failed or stopped,
\* no run's status changes and loopStopped is false.
C38_LoopStoppedMeansStopped ==
    [][HookCalled =>
          /\ hook'.last.loopStopped
                => \E id \in HookRuns : /\ hook.loops[id] = "running"
                                        /\ hook'.loops[id] = "stopped"
          /\ (/\ hook'.last.activeLoopRunId # None
              /\ hook.loops[hook'.last.activeLoopRunId]
                     \in {"absent", "success", "failed", "stopped"})
                => /\ hook'.loops = hook.loops
                   /\ ~hook'.last.loopStopped]_vars

\* C35: for every start() call that returns a LoopResult, the completion
\* observer is invoked exactly once, with that same result, and only after the
\* run's terminal status has been persisted and exactly one summary observation
\* tagged with the run id has been created.
C35_CompletionObserverOnce ==
    \A r \in RunIds :
        loop[r].pc = "done"
            => /\ loop[r].completions = 1
               /\ loop[r].notified.result = loop[r].result
               /\ loop[r].notified.status \in Terminal
               /\ loop[r].notified.summaries = 1
               /\ summaries[r] = 1

\* C36: when start() returns a LoopResult, for every reason, result.iterations
\* equals the iterations value persisted on the run record and equals the number
\* of iteration-callback invocations that were started during that run.
C36_IterationsAgree ==
    \A r \in RunIds :
        loop[r].pc = "done"
            => /\ loop[r].result.iterations = runs[r].iterations
               /\ loop[r].result.iterations = loop[r].cbCount

\* the step is a stop() on an engine whose current run is not running
IdleStop(e) == ~(currentLoopRun[e] # NoRun /\ currentLoopRun[e].status = "running") /\ stop(e)

\* C37: the stop flag does not leak between runs: a stop() issued while no run
\* is running mutates no run record and has no effect on the next start(), which
\* iterates normally until success, budget exhaustion, an error, or a stop()
\* issued during that run.
C37_StopFlagDoesNotLeak ==
    /\ [][\A e \in Engines : IdleStop(e) => runs' = runs /\ summaries' = summaries]_vars
    /\ [](\A r \in RunIds :
             /\ loop[r].pc = "done" /\ loop[r].result.reason = "stopped"
                   => loop[r].stopDuring
             /\ loop[r].pc = "done" /\ ~loop[r].stopDuring
                   => \/ loop[r].result.reason = "success"
                      \/ loop[r].result.reason = "max_iterations"
                            /\ loop[r].result.iterations = loop[r].maxIterations
                      \/ loop[r].result.reason = "error")

\* a stop() was issued before the first start(); the run is in its second
\* iteration with the flag clear
C37_Witness ==
    /\ calls = 1
    /\ 1 \in RunIds
    /\ disturbed["e1"]
    /\ ~loop[1].stopDuring
    /\ ~stopRequested["e1"]
    /\ loop[1].pc = "callback"
    /\ loop[1].iteration = 2
    /\ runs[1].status = "running"

\* the captured files present in a snapshot directory: every file but the manifest
CapturedFiles(snapshot) == {p \in Paths \ {ManifestName} : snapshot.files[p] # Absent}

\* C39: the manifest is the truth about a snapshot's contents: after any
\* sequence of create() and delete() calls, the set of captured files present in
\* each snapshot directory equals the files list of that directory's manifest,
\* including when create() is called a second time with a runId whose snapshot
\* directory already exists.
C39_ManifestIsTruth ==
    \A id \in SnapshotIds :
        (snapshots[id].exists /\ snapshots[id].hasManifest)
            => CapturedFiles(snapshots[id]) = snapshots[id].listed \ {ManifestName}

\* C40: snapshots do not capture snapshot storage: create(runId) captures only
\* working-tree files outside the snapshot root, so no file stored under the
\* project's snapshot root by an earlier create() ever appears in a later
\* snapshot's manifest, and restoring one snapshot never overwrites the stored
\* contents of another snapshot.
C40_StorageNotCaptured ==
    /\ [](\A id \in SnapshotIds : snapshots[id].listedStored = {})
    /\ [][snapshotOp'.op = "restore"
             => \A other \in SnapshotIds \ {snapshotOp'.id} :
                    snapshots'[other].files = snapshots[other].files]_vars

====
